---- MODULE Spec2Model ----
(***************************************************************************)
(* Model of the csgo-log / cs2 log parser: the line pattern, the pattern   *)
(* catalog, the builders, the coercion helpers and Parse.                  *)
(*                                                                         *)
(* Text is modelled as TLA+ strings, character by character.  A regular    *)
(* expression of the source is written as its syntax tree (Lit, Set,       *)
(* AnyChar, Rep, Opt, Alt, Grp, Cat) and matched by FindStringSubmatch     *)
(* below with the leftmost-first (backtracking priority) rule of Go's      *)
(* regexp package.                                                         *)
(***************************************************************************)
EXTENDS Integers, Sequences, FiniteSets, TLC

----------------------------------------------------------------------------
(* Character classes of Go's regexp syntax (ASCII).                        *)

Digit == {"0", "1", "2", "3", "4", "5", "6", "7", "8", "9"}

Lower == {"a", "b", "c", "d", "e", "f", "g", "h", "i", "j", "k", "l", "m",
          "n", "o", "p", "q", "r", "s", "t", "u", "v", "w", "x", "y", "z"}

Upper == {"A", "B", "C", "D", "E", "F", "G", "H", "I", "J", "K", "L", "M",
          "N", "O", "P", "Q", "R", "S", "T", "U", "V", "W", "X", "Y", "Z"}

\* \w
Word == Digit \cup Lower \cup Upper \cup {"_"}

----------------------------------------------------------------------------
(* Syntax trees of regular expressions.                                    *)

Lit(s)         == [t |-> "lit", s |-> s]
Set(c)         == [t |-> "set", c |-> c]
AnyChar        == [t |-> "any"]
Rep(r, lo, hi) == [t |-> "rep", r |-> r, lo |-> lo, hi |-> hi]
Opt(r)         == [t |-> "opt", r |-> r]
Alt(rs)        == [t |-> "alt", rs |-> rs]
Grp(n, r)      == [t |-> "grp", n |-> n, r |-> r]
Cat(rs)        == [t |-> "cat", rs |-> rs]

\* the upper limit of x*, x+
Unbounded == -1

----------------------------------------------------------------------------
(* The matcher.  A configuration [i, key, st, caps] is one way of having   *)
(* matched a part of the expression: i is the next position of the text,   *)
(* caps the capture groups so far (a group that takes no part stays ""),   *)
(* st the positions where the groups began, and key the choices taken, one *)
(* number per choice point, lower is preferred.  Go's regexp answers the   *)
(* leftmost match and, among those, the one a backtracking search finds    *)
(* first: the greedy x*, x+, x? prefer more, an alternation prefers its    *)
(* leftmost alternative.  That match is the one of least key.              *)

Char(s, i) == SubSeq(s, i, i)

\* A wrong character test, to test the properties against: the dot takes a
\* line break as well.
AcceptsCharDotAll(r, c) ==
    CASE r.t = "set" -> c \in r.c
      [] r.t = "any" -> TRUE
      [] r.t = "lit" -> c = r.s

AcceptsChar(r, c) ==
    CASE r.t = "set" -> c \in r.c
      [] r.t = "any" -> c # "\n"
      [] r.t = "lit" -> c = r.s

RECURSIVE SpanIn(_, _, _, _)
\* the number of characters from position i on, up to position j, that r
\* accepts one after the other
SpanIn(s, r, i, j) ==
    IF i > j THEN 0
    ELSE IF i = j THEN (IF AcceptsChar(r, Char(s, i)) THEN 1 ELSE 0)
    ELSE LET m == (i + j) \div 2
             a == SpanIn(s, r, i, m)
         IN IF a < m - i + 1 THEN a ELSE a + SpanIn(s, r, m + 1, j)

\* the longest run x{lo,hi} can take at position i
Span(s, r, i, hi) ==
    SpanIn(s, r, i, IF hi = Unbounded \/ i + hi - 1 > Len(s) THEN Len(s) ELSE i + hi - 1)

Least(S) == CHOOSE x \in S : \A y \in S : x <= y

RECURSIVE Step(_, _, _), StepSeq(_, _, _, _, _)
\* the configurations after r, from the configurations cs before it
Step(s, r, cs) ==
    IF cs = {} THEN {}
    ELSE CASE r.t = "lit" ->
                {[c EXCEPT !.i = c.i + Len(r.s)] :
                    c \in {d \in cs : /\ d.i + Len(r.s) - 1 <= Len(s)
                                      /\ SubSeq(s, d.i, d.i + Len(r.s) - 1) = r.s}}
           [] r.t \in {"set", "any"} ->
                {[c EXCEPT !.i = c.i + 1] :
                    c \in {d \in cs : d.i <= Len(s) /\ AcceptsChar(r, Char(s, d.i))}}
           [] r.t = "rep" ->
                UNION {LET n == Span(s, r.r, c.i, r.hi)
                       IN {[c EXCEPT !.i = c.i + m, !.key = Append(c.key, n - m)] :
                              m \in r.lo..n} : c \in cs}
           [] r.t = "opt" ->
                Step(s, r.r, {[c EXCEPT !.key = Append(c.key, 0)] : c \in cs})
                    \cup {[c EXCEPT !.key = Append(c.key, 1)] : c \in cs}
           [] r.t = "alt" ->
                UNION {Step(s, r.rs[j], {[c EXCEPT !.key = Append(c.key, j)] : c \in cs}) :
                          j \in 1..Len(r.rs)}
           [] r.t = "grp" ->
                {[c EXCEPT !.caps[r.n] = SubSeq(s, c.st[r.n], c.i - 1)] :
                    c \in Step(s, r.r, {[d EXCEPT !.st[r.n] = d.i] : d \in cs})}
           [] r.t = "cat" -> StepSeq(s, r.rs, 1, Len(r.rs), cs)

\* the configurations after rs[lo..hi], one after the other
StepSeq(s, rs, lo, hi, cs) ==
    IF lo > hi THEN cs
    ELSE IF lo = hi THEN Step(s, rs[lo], cs)
    ELSE LET m == (lo + hi) \div 2
             left == StepSeq(s, rs, lo, m, cs)
         IN IF left = {} THEN {} ELSE StepSeq(s, rs, m + 1, hi, left)

RECURSIVE Preferred(_, _)
\* the configuration of least key among cs, which differ from choice j on
Preferred(cs, j) ==
    IF Cardinality(cs) = 1 THEN CHOOSE c \in cs : TRUE
    ELSE LET lead == Least({c.key[j] : c \in cs})
         IN Preferred({c \in cs : c.key[j] = lead}, j + 1)

\* regexp.FindStringSubmatch: the leftmost match of p in s.  r[0] is the whole
\* match, r[1..n] are the groups; ok is FALSE where Go answers nil
FindStringSubmatch(p, s) ==
    LET none == [g \in 0..p.n |-> ""]
        from == {[i |-> i, key |-> <<i>>, st |-> [g \in 0..p.n |-> 0], caps |-> none] :
                    i \in 1..(Len(s) + 1)}
        found == Step(s, p.re, from)
        m == Preferred(found, 1)
    IN IF found = {} THEN [ok |-> FALSE, r |-> none]
       ELSE [ok |-> TRUE, r |-> [m.caps EXCEPT ![0] = SubSeq(s, m.key[1], m.i - 1)]]

----------------------------------------------------------------------------
(* Values.  A Go value that may be nil (a Message, an error) is the empty  *)
(* tuple when nil and a one-element tuple otherwise.                       *)

Nil     == <<>>
Some(x) == <<x>>

\* ErrorNoMatch = errors.New("no match")
ErrorNoMatch == "no match"

----------------------------------------------------------------------------
(* Helpers: strconv.Atoi, strconv.ParseFloat, strings.Contains.            *)

DigitVal(c) ==
    CASE c = "0" -> 0 [] c = "1" -> 1 [] c = "2" -> 2 [] c = "3" -> 3 [] c = "4" -> 4
      [] c = "5" -> 5 [] c = "6" -> 6 [] c = "7" -> 7 [] c = "8" -> 8 [] c = "9" -> 9

AllDigits(s) == \A i \in 1..Len(s) : Char(s, i) \in Digit

RECURSIVE DecimalValue(_, _)
\* the number the first n digits of s write
DecimalValue(s, n) ==
    IF n = 0 THEN 0 ELSE 10 * DecimalValue(s, n - 1) + DigitVal(Char(s, n))

\* s without its leading zeros
StripZeros(s) ==
    LET nz == {i \in 1..Len(s) : Char(s, i) # "0"}
    IN IF nz = {} THEN "" ELSE SubSeq(s, Least(nz), Len(s))

\* a < b for digit strings: shorter is less, equal lengths compare digit by digit
DigitsLess(a, b) ==
    \/ Len(a) < Len(b)
    \/ /\ Len(a) = Len(b)
       /\ \E j \in 1..Len(a) :
             /\ DigitVal(Char(a, j)) < DigitVal(Char(b, j))
             /\ \A q \in 1..(j - 1) : Char(a, q) = Char(b, q)

\* the bounds of Go's int on a 64-bit platform, as digit strings
MaxIntDigits == "9223372036854775807"
MinIntDigits == "9223372036854775808"

\* strconv.Atoi: [ok, v]; an optional sign, then digits only, within the range of int
Atoi(v) ==
    LET signed == Len(v) > 0 /\ Char(v, 1) \in {"+", "-"}
        neg    == Len(v) > 0 /\ Char(v, 1) = "-"
        digits == IF signed THEN SubSeq(v, 2, Len(v)) ELSE v
        mag    == StripZeros(digits)
    IN IF Len(digits) = 0 \/ ~AllDigits(digits) THEN [ok |-> FALSE, v |-> 0]
       ELSE IF DigitsLess(IF neg THEN MinIntDigits ELSE MaxIntDigits, mag)
       THEN [ok |-> FALSE, v |-> 0]
       ELSE [ok |-> TRUE,
             v  |-> IF neg THEN 0 - DecimalValue(mag, Len(mag)) ELSE DecimalValue(mag, Len(mag))]

\* A wrong toInt, to test the properties against: text that is no number gives -1.
toIntMinusOne(v) ==
    LET i == Atoi(v)
    IN IF ~i.ok THEN 0 - 1 ELSE i.v

\* A wrong toInt, to test the properties against: of digits that write a number
\* out of the range of int the last nine are kept.
toIntTruncated(v) ==
    LET i == Atoi(v)
    IN IF i.ok THEN i.v
       ELSE IF AllDigits(v) /\ Len(v) > 9
       THEN DecimalValue(SubSeq(v, Len(v) - 8, Len(v)), 9)
       ELSE 0

\* toInt converts string to int, assigns 0 when not convertable
toInt(v) ==
    LET i == Atoi(v)
    IN IF ~i.ok THEN 0 ELSE i.v

\* s without its trailing zeros
StripTrailingZeros(s) ==
    LET nz == {i \in 1..Len(s) : Char(s, i) # "0"}
    IN IF nz = {} THEN "" ELSE SubSeq(s, 1, CHOOSE i \in nz : \A j \in nz : j <= i)

\* the float that is zero
FloatZero == [neg |-> FALSE, digits |-> "", exp |-> 0]

\* strconv.ParseFloat on decimal texts (an optional sign, digits with at most one
\* point, at least one digit): [ok, f], where f is the value as its sign, its
\* significant digits and its decimal exponent, (-1)^neg * digits * 10^exp.
\* The rounding to 32 bits is not modelled.
ParseFloat(v) ==
    LET neg    == Len(v) > 0 /\ Char(v, 1) = "-"
        signed == Len(v) > 0 /\ Char(v, 1) \in {"+", "-"}
        body   == IF signed THEN SubSeq(v, 2, Len(v)) ELSE v
        points == {i \in 1..Len(body) : Char(body, i) = "."}
        point  == IF points = {} THEN Len(body) + 1 ELSE Least(points)
        whole  == SubSeq(body, 1, point - 1)
        frac   == StripTrailingZeros(SubSeq(body, point + 1, Len(body)))
        all    == StripZeros(whole \o frac)
    IN IF Cardinality(points) > 1 \/ Len(body) - Cardinality(points) = 0
             \/ ~AllDigits(whole \o frac)
       THEN [ok |-> FALSE, f |-> FloatZero]
       ELSE IF all = "" THEN [ok |-> TRUE, f |-> FloatZero]
       ELSE [ok |-> TRUE, f |-> [neg |-> neg, digits |-> all, exp |-> 0 - Len(frac)]]

\* toFloat32 converts string to float32, assigns 0 when not convertable
toFloat32(v) ==
    LET i == ParseFloat(v)
    IN IF ~i.ok THEN FloatZero ELSE i.f

\* strings.Contains
Contains(s, substr) ==
    \E i \in 1..(Len(s) - Len(substr) + 1) : SubSeq(s, i, i + Len(substr) - 1) = substr

----------------------------------------------------------------------------
(* The patterns, each with the number n of its capture groups.             *)

\* A wrong line pattern, to test the properties against: the "L " is not asked for.
LogLinePatternWithoutL ==
    [n |-> 2, re |-> Cat(<<Grp(1,
        Cat(<<Rep(Set(Digit), 2, 2), Lit("/"), Rep(Set(Digit), 2, 2), Lit("/"), Rep(Set(Digit), 4, 4), Lit(" - "), Rep(Set(Digit), 2, 2), Lit(":"), Rep(Set(Digit), 2, 2), Lit(":"), Rep(Set(Digit), 2, 2)>>)),
        Lit(": "), Grp(2, Rep(AnyChar, 0, Unbounded))>>)]

\* L (\d{2}\/\d{2}\/\d{4} - \d{2}:\d{2}:\d{2}): (.*)
LogLinePattern ==
    [n |-> 2, re |-> Cat(<<Lit("L "), Grp(1,
        Cat(<<Rep(Set(Digit), 2, 2), Lit("/"), Rep(Set(Digit), 2, 2), Lit("/"), Rep(Set(Digit), 4, 4), Lit(" - "), Rep(Set(Digit), 2, 2), Lit(":"), Rep(Set(Digit), 2, 2), Lit(":"), Rep(Set(Digit), 2, 2)>>)),
        Lit(": "), Grp(2, Rep(AnyChar, 0, Unbounded))>>)]

\* server_message: "(\w+)"
ServerMessagePattern ==
    [n |-> 1, re |-> Cat(<<Lit("server_message: \""), Grp(1, Rep(Set(Word), 1, Unbounded)),
        Lit("\"")>>)]

\* Starting Freeze period
FreezTimeStartPattern ==
    [n |-> 0, re |-> Lit("Starting Freeze period")]

\* World triggered "Match_Start" on "(\w+)"
WorldMatchStartPattern ==
    [n |-> 1, re |-> Cat(<<Lit("World triggered \"Match_Start\" on \""), Grp(1,
        Rep(Set(Word), 1, Unbounded)), Lit("\"")>>)]

\* World triggered "Round_Start"
WorldRoundStartPattern ==
    [n |-> 0, re |-> Lit("World triggered \"Round_Start\"")]

\* World triggered "Restart_Round_\((\d+)_second\)
WorldRoundRestartPattern ==
    [n |-> 1, re |-> Cat(<<Lit("World triggered \"Restart_Round_("), Grp(1,
        Rep(Set(Digit), 1, Unbounded)), Lit("_second)")>>)]

\* World triggered "Round_End"
WorldRoundEndPattern ==
    [n |-> 0, re |-> Lit("World triggered \"Round_End\"")]

\* World triggered "Game_Commencing"
WorldGameCommencingPattern ==
    [n |-> 0, re |-> Lit("World triggered \"Game_Commencing\"")]

\* A wrong pattern, to test the properties against: the score is any text.
TeamScoredPatternAnyScore ==
    [n |-> 3, re |-> Cat(<<Lit("Team \""), Grp(1, Alt(<<Lit("CT"), Lit("TERRORIST")>>)),
        Lit("\" scored \""), Grp(2, Rep(AnyChar, 0, Unbounded)), Lit("\" with \""),
        Grp(3, Rep(Set(Digit), 1, Unbounded)), Lit("\" players")>>)]

\* Team "(CT|TERRORIST)" scored "(\d+)" with "(\d+)" players
TeamScoredPattern ==
    [n |-> 3, re |-> Cat(<<Lit("Team \""), Grp(1, Alt(<<Lit("CT"), Lit("TERRORIST")>>)),
        Lit("\" scored \""), Grp(2, Rep(Set(Digit), 1, Unbounded)), Lit("\" with \""),
        Grp(3, Rep(Set(Digit), 1, Unbounded)), Lit("\" players")>>)]

\* Team "(CT|TERRORIST)" triggered "(\w+)" \(CT "(\d+)"\) \(T "(\d+)"\)
TeamNoticePattern ==
    [n |-> 4, re |-> Cat(<<Lit("Team \""), Grp(1, Alt(<<Lit("CT"), Lit("TERRORIST")>>)),
        Lit("\" triggered \""), Grp(2, Rep(Set(Word), 1, Unbounded)), Lit("\" (CT \""),
        Grp(3, Rep(Set(Digit), 1, Unbounded)), Lit("\") (T \""), Grp(4,
        Rep(Set(Digit), 1, Unbounded)), Lit("\")")>>)]

\* "(.+)<(\d+)><([\[\]\w:]+)><>" connected, address "(.*)"
PlayerConnectedPattern ==
    [n |-> 4, re |-> Cat(<<Lit("\""), Grp(1, Rep(AnyChar, 1, Unbounded)), Lit("<"), Grp(2,
        Rep(Set(Digit), 1, Unbounded)), Lit("><"), Grp(3,
        Rep(Set(Word \cup {"[", "]", ":"}), 1, Unbounded)),
        Lit("><>\" connected, address \""), Grp(4, Rep(AnyChar, 0, Unbounded)),
        Lit("\"")>>)]

\* "(.+)<(\d+)><([\[\]\w:]+)><(TERRORIST|CT|Unassigned|)>" disconnected \(reason "(.+)"\)
PlayerDisconnectedPattern ==
    [n |-> 5, re |-> Cat(<<Lit("\""), Grp(1, Rep(AnyChar, 1, Unbounded)), Lit("<"), Grp(2,
        Rep(Set(Digit), 1, Unbounded)), Lit("><"), Grp(3,
        Rep(Set(Word \cup {"[", "]", ":"}), 1, Unbounded)), Lit("><"), Grp(4,
        Alt(<<Lit("TERRORIST"), Lit("CT"), Lit("Unassigned"), Lit("")>>)),
        Lit(">\" disconnected (reason \""), Grp(5, Rep(AnyChar, 1, Unbounded)),
        Lit("\")")>>)]

\* "(.+)<(\d+)><([\[\]\w:]+)><>" entered the game
PlayerEnteredPattern ==
    [n |-> 3, re |-> Cat(<<Lit("\""), Grp(1, Rep(AnyChar, 1, Unbounded)), Lit("<"), Grp(2,
        Rep(Set(Digit), 1, Unbounded)), Lit("><"), Grp(3,
        Rep(Set(Word \cup {"[", "]", ":"}), 1, Unbounded)),
        Lit("><>\" entered the game")>>)]

\* Banid: "(.+)<(\d+)><([\[\]\w:]+)><\w*>" was banned "([\w. ]+)" by "(\w+)"
PlayerBannedPattern ==
    [n |-> 5, re |-> Cat(<<Lit("Banid: \""), Grp(1, Rep(AnyChar, 1, Unbounded)), Lit("<"),
        Grp(2, Rep(Set(Digit), 1, Unbounded)), Lit("><"), Grp(3,
        Rep(Set(Word \cup {"[", "]", ":"}), 1, Unbounded)), Lit("><"), Rep(Set(Word), 0,
        Unbounded), Lit(">\" was banned \""), Grp(4,
        Rep(Set(Word \cup {".", " "}), 1, Unbounded)), Lit("\" by \""), Grp(5,
        Rep(Set(Word), 1, Unbounded)), Lit("\"")>>)]

\* "(.+)<(\d+)><([\[\]\w:]+)>" switched from team <(Unassigned|Spectator|TERRORIST|CT)> to <(Unassigned|Spectator|TERRORIST|CT)>
PlayerSwitchedPattern ==
    [n |-> 5, re |-> Cat(<<Lit("\""), Grp(1, Rep(AnyChar, 1, Unbounded)), Lit("<"), Grp(2,
        Rep(Set(Digit), 1, Unbounded)), Lit("><"), Grp(3,
        Rep(Set(Word \cup {"[", "]", ":"}), 1, Unbounded)),
        Lit(">\" switched from team <"), Grp(4,
        Alt(<<Lit("Unassigned"), Lit("Spectator"), Lit("TERRORIST"), Lit("CT")>>)),
        Lit("> to <"), Grp(5,
        Alt(<<Lit("Unassigned"), Lit("Spectator"), Lit("TERRORIST"), Lit("CT")>>)),
        Lit(">")>>)]

\* "(.+)<(\d+)><([\[\]\w:]+)><(TERRORIST|CT)>" say(_team)? "(.*)"
PlayerSayPattern ==
    [n |-> 6, re |-> Cat(<<Lit("\""), Grp(1, Rep(AnyChar, 1, Unbounded)), Lit("<"), Grp(2,
        Rep(Set(Digit), 1, Unbounded)), Lit("><"), Grp(3,
        Rep(Set(Word \cup {"[", "]", ":"}), 1, Unbounded)), Lit("><"), Grp(4,
        Alt(<<Lit("TERRORIST"), Lit("CT")>>)), Lit(">\" say"), Opt(Grp(5, Lit("_team"))),
        Lit(" \""), Grp(6, Rep(AnyChar, 0, Unbounded)), Lit("\"")>>)]

\* "(.+)<(\d+)><([\[\]\w:]+)><(TERRORIST|CT)>" purchased "(\w+)"
PlayerPurchasePattern ==
    [n |-> 5, re |-> Cat(<<Lit("\""), Grp(1, Rep(AnyChar, 1, Unbounded)), Lit("<"), Grp(2,
        Rep(Set(Digit), 1, Unbounded)), Lit("><"), Grp(3,
        Rep(Set(Word \cup {"[", "]", ":"}), 1, Unbounded)), Lit("><"), Grp(4,
        Alt(<<Lit("TERRORIST"), Lit("CT")>>)), Lit(">\" purchased \""), Grp(5,
        Rep(Set(Word), 1, Unbounded)), Lit("\"")>>)]

\* A wrong kill pattern, to test the properties against: any words stand between
\* the parentheses.
PlayerKillPatternAnyWords ==
    [n |-> 17, re |-> Cat(<<Lit("\""), Grp(1, Rep(AnyChar, 1, Unbounded)), Lit("<"), Grp(2,
        Rep(Set(Digit), 1, Unbounded)), Lit("><"), Grp(3,
        Rep(Set(Word \cup {"[", "]", ":"}), 1, Unbounded)), Lit("><"), Grp(4,
        Alt(<<Lit("TERRORIST"), Lit("CT")>>)), Lit(">\" ["), Grp(5,
        Cat(<<Opt(Lit("-")), Rep(Set(Digit), 1, Unbounded)>>)), Lit(" "), Grp(6,
        Cat(<<Opt(Lit("-")), Rep(Set(Digit), 1, Unbounded)>>)), Lit(" "), Grp(7,
        Cat(<<Opt(Lit("-")), Rep(Set(Digit), 1, Unbounded)>>)), Lit("] killed \""), Grp(8,
        Rep(AnyChar, 1, Unbounded)), Lit("<"), Grp(9, Rep(Set(Digit), 1, Unbounded)),
        Lit("><"), Grp(10, Rep(Set(Word \cup {"[", "]", ":"}), 1, Unbounded)), Lit("><"),
        Grp(11, Alt(<<Lit("TERRORIST"), Lit("CT")>>)), Lit(">\" ["), Grp(12,
        Cat(<<Opt(Lit("-")), Rep(Set(Digit), 1, Unbounded)>>)), Lit(" "), Grp(13,
        Cat(<<Opt(Lit("-")), Rep(Set(Digit), 1, Unbounded)>>)), Lit(" "), Grp(14,
        Cat(<<Opt(Lit("-")), Rep(Set(Digit), 1, Unbounded)>>)), Lit("] with \""), Grp(15,
        Rep(Set(Word), 1, Unbounded)), Lit("\""), Opt(Lit(" ")),
        Opt(Grp(16, Cat(<<Opt(Lit("(")),
        Opt(Grp(17, Rep(Set(Word \cup {" "}), 1, Unbounded))), Lit(")")>>)))>>)]

\* "(.+)<(\d+)><([\[\]\w:]+)><(TERRORIST|CT)>" \[(-?\d+) (-?\d+) (-?\d+)\] killed "(.+)<(\d+)><([\[\]\w:]+)><(TERRORIST|CT)>" \[(-?\d+) (-?\d+) (-?\d+)\] with "(\w+)" ?(\(?(headshot|penetrated|headshot penetrated)?\))?
PlayerKillPattern ==
    [n |-> 17, re |-> Cat(<<Lit("\""), Grp(1, Rep(AnyChar, 1, Unbounded)), Lit("<"), Grp(2,
        Rep(Set(Digit), 1, Unbounded)), Lit("><"), Grp(3,
        Rep(Set(Word \cup {"[", "]", ":"}), 1, Unbounded)), Lit("><"), Grp(4,
        Alt(<<Lit("TERRORIST"), Lit("CT")>>)), Lit(">\" ["), Grp(5,
        Cat(<<Opt(Lit("-")), Rep(Set(Digit), 1, Unbounded)>>)), Lit(" "), Grp(6,
        Cat(<<Opt(Lit("-")), Rep(Set(Digit), 1, Unbounded)>>)), Lit(" "), Grp(7,
        Cat(<<Opt(Lit("-")), Rep(Set(Digit), 1, Unbounded)>>)), Lit("] killed \""), Grp(8,
        Rep(AnyChar, 1, Unbounded)), Lit("<"), Grp(9, Rep(Set(Digit), 1, Unbounded)),
        Lit("><"), Grp(10, Rep(Set(Word \cup {"[", "]", ":"}), 1, Unbounded)), Lit("><"),
        Grp(11, Alt(<<Lit("TERRORIST"), Lit("CT")>>)), Lit(">\" ["), Grp(12,
        Cat(<<Opt(Lit("-")), Rep(Set(Digit), 1, Unbounded)>>)), Lit(" "), Grp(13,
        Cat(<<Opt(Lit("-")), Rep(Set(Digit), 1, Unbounded)>>)), Lit(" "), Grp(14,
        Cat(<<Opt(Lit("-")), Rep(Set(Digit), 1, Unbounded)>>)), Lit("] with \""), Grp(15,
        Rep(Set(Word), 1, Unbounded)), Lit("\""), Opt(Lit(" ")),
        Opt(Grp(16, Cat(<<Opt(Lit("(")), Opt(Grp(17, Alt(<<Lit("headshot"), Lit("penetrated"), Lit("headshot penetrated")>>))), Lit(")")>>)))>>)]

\* "(.+)<(\d+)><([\[\]\w:]+)><(TERRORIST|CT)>" assisted killing "(.+)<(\d+)><([\[\]\w:]+)><(TERRORIST|CT)>"
PlayerKillAssistPattern ==
    [n |-> 8, re |-> Cat(<<Lit("\""), Grp(1, Rep(AnyChar, 1, Unbounded)), Lit("<"), Grp(2,
        Rep(Set(Digit), 1, Unbounded)), Lit("><"), Grp(3,
        Rep(Set(Word \cup {"[", "]", ":"}), 1, Unbounded)), Lit("><"), Grp(4,
        Alt(<<Lit("TERRORIST"), Lit("CT")>>)), Lit(">\" assisted killing \""), Grp(5,
        Rep(AnyChar, 1, Unbounded)), Lit("<"), Grp(6, Rep(Set(Digit), 1, Unbounded)),
        Lit("><"), Grp(7, Rep(Set(Word \cup {"[", "]", ":"}), 1, Unbounded)), Lit("><"),
        Grp(8, Alt(<<Lit("TERRORIST"), Lit("CT")>>)), Lit(">\"")>>)]

\* "(.+)<(\d+)><([\[\]\w:]+)><(TERRORIST|CT)>" \[(-?\d+) (-?\d+) (-?\d+)\] attacked "(.+)<(\d+)><([\[\]\w:]+)><(TERRORIST|CT)>" \[(-?\d+) (-?\d+) (-?\d+)\] with "(\w+)" \(damage "(\d+)"\) \(damage_armor "(\d+)"\) \(health "(\d+)"\) \(armor "(\d+)"\) \(hitgroup "([\w ]+)"\)
PlayerAttackPattern ==
    [n |-> 20, re |-> Cat(<<Lit("\""), Grp(1, Rep(AnyChar, 1, Unbounded)), Lit("<"), Grp(2,
        Rep(Set(Digit), 1, Unbounded)), Lit("><"), Grp(3,
        Rep(Set(Word \cup {"[", "]", ":"}), 1, Unbounded)), Lit("><"), Grp(4,
        Alt(<<Lit("TERRORIST"), Lit("CT")>>)), Lit(">\" ["), Grp(5,
        Cat(<<Opt(Lit("-")), Rep(Set(Digit), 1, Unbounded)>>)), Lit(" "), Grp(6,
        Cat(<<Opt(Lit("-")), Rep(Set(Digit), 1, Unbounded)>>)), Lit(" "), Grp(7,
        Cat(<<Opt(Lit("-")), Rep(Set(Digit), 1, Unbounded)>>)), Lit("] attacked \""),
        Grp(8, Rep(AnyChar, 1, Unbounded)), Lit("<"), Grp(9,
        Rep(Set(Digit), 1, Unbounded)), Lit("><"), Grp(10,
        Rep(Set(Word \cup {"[", "]", ":"}), 1, Unbounded)), Lit("><"), Grp(11,
        Alt(<<Lit("TERRORIST"), Lit("CT")>>)), Lit(">\" ["), Grp(12,
        Cat(<<Opt(Lit("-")), Rep(Set(Digit), 1, Unbounded)>>)), Lit(" "), Grp(13,
        Cat(<<Opt(Lit("-")), Rep(Set(Digit), 1, Unbounded)>>)), Lit(" "), Grp(14,
        Cat(<<Opt(Lit("-")), Rep(Set(Digit), 1, Unbounded)>>)), Lit("] with \""), Grp(15,
        Rep(Set(Word), 1, Unbounded)), Lit("\" (damage \""), Grp(16,
        Rep(Set(Digit), 1, Unbounded)), Lit("\") (damage_armor \""), Grp(17,
        Rep(Set(Digit), 1, Unbounded)), Lit("\") (health \""), Grp(18,
        Rep(Set(Digit), 1, Unbounded)), Lit("\") (armor \""), Grp(19,
        Rep(Set(Digit), 1, Unbounded)), Lit("\") (hitgroup \""), Grp(20,
        Rep(Set(Word \cup {" "}), 1, Unbounded)), Lit("\")")>>)]

\* "(.+)<(\d+)><([\[\]\w:]+)><(TERRORIST|CT)>" \[(-?\d+) (-?\d+) (-?\d+)\] was killed by the bomb\.
PlayerKilledBombPattern ==
    [n |-> 7, re |-> Cat(<<Lit("\""), Grp(1, Rep(AnyChar, 1, Unbounded)), Lit("<"), Grp(2,
        Rep(Set(Digit), 1, Unbounded)), Lit("><"), Grp(3,
        Rep(Set(Word \cup {"[", "]", ":"}), 1, Unbounded)), Lit("><"), Grp(4,
        Alt(<<Lit("TERRORIST"), Lit("CT")>>)), Lit(">\" ["), Grp(5,
        Cat(<<Opt(Lit("-")), Rep(Set(Digit), 1, Unbounded)>>)), Lit(" "), Grp(6,
        Cat(<<Opt(Lit("-")), Rep(Set(Digit), 1, Unbounded)>>)), Lit(" "), Grp(7,
        Cat(<<Opt(Lit("-")), Rep(Set(Digit), 1, Unbounded)>>)),
        Lit("] was killed by the bomb.")>>)]

\* "(.+)<(\d+)><([\[\]\w:]+)><(TERRORIST|CT)>" \[(-?\d+) (-?\d+) (-?\d+)\] committed suicide with "(.*)"
PlayerKilledSuicidePattern ==
    [n |-> 8, re |-> Cat(<<Lit("\""), Grp(1, Rep(AnyChar, 1, Unbounded)), Lit("<"), Grp(2,
        Rep(Set(Digit), 1, Unbounded)), Lit("><"), Grp(3,
        Rep(Set(Word \cup {"[", "]", ":"}), 1, Unbounded)), Lit("><"), Grp(4,
        Alt(<<Lit("TERRORIST"), Lit("CT")>>)), Lit(">\" ["), Grp(5,
        Cat(<<Opt(Lit("-")), Rep(Set(Digit), 1, Unbounded)>>)), Lit(" "), Grp(6,
        Cat(<<Opt(Lit("-")), Rep(Set(Digit), 1, Unbounded)>>)), Lit(" "), Grp(7,
        Cat(<<Opt(Lit("-")), Rep(Set(Digit), 1, Unbounded)>>)),
        Lit("] committed suicide with \""), Grp(8, Rep(AnyChar, 0, Unbounded)),
        Lit("\"")>>)]

\* "(.+)<(\d+)><([\[\]\w:]+)><(TERRORIST|CT)>" picked up "(\w+)"
PlayerPickedUpPattern ==
    [n |-> 5, re |-> Cat(<<Lit("\""), Grp(1, Rep(AnyChar, 1, Unbounded)), Lit("<"), Grp(2,
        Rep(Set(Digit), 1, Unbounded)), Lit("><"), Grp(3,
        Rep(Set(Word \cup {"[", "]", ":"}), 1, Unbounded)), Lit("><"), Grp(4,
        Alt(<<Lit("TERRORIST"), Lit("CT")>>)), Lit(">\" picked up \""), Grp(5,
        Rep(Set(Word), 1, Unbounded)), Lit("\"")>>)]

\* "(.+)<(\d+)><([\[\]\w:]+)><(TERRORIST|CT|Unassigned)>" dropped "(\w+)"
PlayerDroppedPattern ==
    [n |-> 5, re |-> Cat(<<Lit("\""), Grp(1, Rep(AnyChar, 1, Unbounded)), Lit("<"), Grp(2,
        Rep(Set(Digit), 1, Unbounded)), Lit("><"), Grp(3,
        Rep(Set(Word \cup {"[", "]", ":"}), 1, Unbounded)), Lit("><"), Grp(4,
        Alt(<<Lit("TERRORIST"), Lit("CT"), Lit("Unassigned")>>)), Lit(">\" dropped \""),
        Grp(5, Rep(Set(Word), 1, Unbounded)), Lit("\"")>>)]

\* "(.+)<(\d+)><([\[\]\w:]+)><(TERRORIST|CT)>" money change (\d+)\+?(-?\d+) = \$(\d+) \(tracked\)( \(purchase: (\w+)\))?
PlayerMoneyChangePattern ==
    [n |-> 9, re |-> Cat(<<Lit("\""), Grp(1, Rep(AnyChar, 1, Unbounded)), Lit("<"), Grp(2,
        Rep(Set(Digit), 1, Unbounded)), Lit("><"), Grp(3,
        Rep(Set(Word \cup {"[", "]", ":"}), 1, Unbounded)), Lit("><"), Grp(4,
        Alt(<<Lit("TERRORIST"), Lit("CT")>>)), Lit(">\" money change "), Grp(5,
        Rep(Set(Digit), 1, Unbounded)), Opt(Lit("+")), Grp(6,
        Cat(<<Opt(Lit("-")), Rep(Set(Digit), 1, Unbounded)>>)), Lit(" = $"), Grp(7,
        Rep(Set(Digit), 1, Unbounded)), Lit(" (tracked)"),
        Opt(Grp(8, Cat(<<Lit(" (purchase: "), Grp(9, Rep(Set(Word), 1, Unbounded)), Lit(")")>>)))>>)]

\* "(.+)<(\d+)><([\[\]\w:]+)><(TERRORIST|CT)>" triggered "Got_The_Bomb"
PlayerBombGotPattern ==
    [n |-> 4, re |-> Cat(<<Lit("\""), Grp(1, Rep(AnyChar, 1, Unbounded)), Lit("<"), Grp(2,
        Rep(Set(Digit), 1, Unbounded)), Lit("><"), Grp(3,
        Rep(Set(Word \cup {"[", "]", ":"}), 1, Unbounded)), Lit("><"), Grp(4,
        Alt(<<Lit("TERRORIST"), Lit("CT")>>)), Lit(">\" triggered \"Got_The_Bomb\"")>>)]

\* "(.+)<(\d+)><([\[\]\w:]+)><(TERRORIST|CT)>" triggered "Planted_The_Bomb"
PlayerBombPlantedPattern ==
    [n |-> 4, re |-> Cat(<<Lit("\""), Grp(1, Rep(AnyChar, 1, Unbounded)), Lit("<"), Grp(2,
        Rep(Set(Digit), 1, Unbounded)), Lit("><"), Grp(3,
        Rep(Set(Word \cup {"[", "]", ":"}), 1, Unbounded)), Lit("><"), Grp(4,
        Alt(<<Lit("TERRORIST"), Lit("CT")>>)), Lit(">\" triggered \"Planted_The_Bomb\"")>>)]

\* "(.+)<(\d+)><([\[\]\w:]+)><(TERRORIST|CT)>" triggered "Dropped_The_Bomb"
PlayerBombDroppedPattern ==
    [n |-> 4, re |-> Cat(<<Lit("\""), Grp(1, Rep(AnyChar, 1, Unbounded)), Lit("<"), Grp(2,
        Rep(Set(Digit), 1, Unbounded)), Lit("><"), Grp(3,
        Rep(Set(Word \cup {"[", "]", ":"}), 1, Unbounded)), Lit("><"), Grp(4,
        Alt(<<Lit("TERRORIST"), Lit("CT")>>)), Lit(">\" triggered \"Dropped_The_Bomb\"")>>)]

\* "(.+)<(\d+)><([\[\]\w:]+)><(TERRORIST|CT)>" triggered "Begin_Bomb_Defuse_With(out)?_Kit"
PlayerBombBeginDefusePattern ==
    [n |-> 5, re |-> Cat(<<Lit("\""), Grp(1, Rep(AnyChar, 1, Unbounded)), Lit("<"), Grp(2,
        Rep(Set(Digit), 1, Unbounded)), Lit("><"), Grp(3,
        Rep(Set(Word \cup {"[", "]", ":"}), 1, Unbounded)), Lit("><"), Grp(4,
        Alt(<<Lit("TERRORIST"), Lit("CT")>>)),
        Lit(">\" triggered \"Begin_Bomb_Defuse_With"), Opt(Grp(5, Lit("out"))),
        Lit("_Kit\"")>>)]

\* "(.+)<(\d+)><([\[\]\w:]+)><(TERRORIST|CT)>" triggered "Defused_The_Bomb"
PlayerBombDefusedPattern ==
    [n |-> 4, re |-> Cat(<<Lit("\""), Grp(1, Rep(AnyChar, 1, Unbounded)), Lit("<"), Grp(2,
        Rep(Set(Digit), 1, Unbounded)), Lit("><"), Grp(3,
        Rep(Set(Word \cup {"[", "]", ":"}), 1, Unbounded)), Lit("><"), Grp(4,
        Alt(<<Lit("TERRORIST"), Lit("CT")>>)), Lit(">\" triggered \"Defused_The_Bomb\"")>>)]

\* "(.+)<(\d+)><([\[\]\w:]+)><(TERRORIST|CT)>" threw (\w+) \[(-?\d+) (-?\d+) (-?\d+)\]( flashbang entindex (\d+))?\)?
PlayerThrewPattern ==
    [n |-> 10, re |-> Cat(<<Lit("\""), Grp(1, Rep(AnyChar, 1, Unbounded)), Lit("<"), Grp(2,
        Rep(Set(Digit), 1, Unbounded)), Lit("><"), Grp(3,
        Rep(Set(Word \cup {"[", "]", ":"}), 1, Unbounded)), Lit("><"), Grp(4,
        Alt(<<Lit("TERRORIST"), Lit("CT")>>)), Lit(">\" threw "), Grp(5,
        Rep(Set(Word), 1, Unbounded)), Lit(" ["), Grp(6,
        Cat(<<Opt(Lit("-")), Rep(Set(Digit), 1, Unbounded)>>)), Lit(" "), Grp(7,
        Cat(<<Opt(Lit("-")), Rep(Set(Digit), 1, Unbounded)>>)), Lit(" "), Grp(8,
        Cat(<<Opt(Lit("-")), Rep(Set(Digit), 1, Unbounded)>>)), Lit("]"),
        Opt(Grp(9, Cat(<<Lit(" flashbang entindex "), Grp(10, Rep(Set(Digit), 1, Unbounded))>>))),
        Opt(Lit(")"))>>)]

\* "(.+)<(\d+)><([\[\]\w:]+)><(TERRORIST|CT)>" blinded for ([\d.]+) by "(.+)<(\d+)><([\[\]\w:]+)><(TERRORIST|CT)>" from flashbang entindex (\d+)
PlayerBlindedPattern ==
    [n |-> 10, re |-> Cat(<<Lit("\""), Grp(1, Rep(AnyChar, 1, Unbounded)), Lit("<"), Grp(2,
        Rep(Set(Digit), 1, Unbounded)), Lit("><"), Grp(3,
        Rep(Set(Word \cup {"[", "]", ":"}), 1, Unbounded)), Lit("><"), Grp(4,
        Alt(<<Lit("TERRORIST"), Lit("CT")>>)), Lit(">\" blinded for "), Grp(5,
        Rep(Set(Digit \cup {"."}), 1, Unbounded)), Lit(" by \""), Grp(6,
        Rep(AnyChar, 1, Unbounded)), Lit("<"), Grp(7, Rep(Set(Digit), 1, Unbounded)),
        Lit("><"), Grp(8, Rep(Set(Word \cup {"[", "]", ":"}), 1, Unbounded)), Lit("><"),
        Grp(9, Alt(<<Lit("TERRORIST"), Lit("CT")>>)), Lit(">\" from flashbang entindex "),
        Grp(10, Rep(Set(Digit), 1, Unbounded))>>)]

\* Molotov projectile spawned at (-?\d+\.\d+) (-?\d+\.\d+) (-?\d+\.\d+), velocity (-?\d+\.\d+) (-?\d+\.\d+) (-?\d+\.\d+)
ProjectileSpawnedPattern ==
    [n |-> 6, re |-> Cat(<<Lit("Molotov projectile spawned at "), Grp(1,
        Cat(<<Opt(Lit("-")), Rep(Set(Digit), 1, Unbounded), Lit("."), Rep(Set(Digit), 1, Unbounded)>>)),
        Lit(" "), Grp(2,
        Cat(<<Opt(Lit("-")), Rep(Set(Digit), 1, Unbounded), Lit("."), Rep(Set(Digit), 1, Unbounded)>>)),
        Lit(" "), Grp(3,
        Cat(<<Opt(Lit("-")), Rep(Set(Digit), 1, Unbounded), Lit("."), Rep(Set(Digit), 1, Unbounded)>>)),
        Lit(", velocity "), Grp(4,
        Cat(<<Opt(Lit("-")), Rep(Set(Digit), 1, Unbounded), Lit("."), Rep(Set(Digit), 1, Unbounded)>>)),
        Lit(" "), Grp(5,
        Cat(<<Opt(Lit("-")), Rep(Set(Digit), 1, Unbounded), Lit("."), Rep(Set(Digit), 1, Unbounded)>>)),
        Lit(" "), Grp(6,
        Cat(<<Opt(Lit("-")), Rep(Set(Digit), 1, Unbounded), Lit("."), Rep(Set(Digit), 1, Unbounded)>>))>>)]

\* Game Over: (\w+) (\w+) (\w+) score (\d+):(\d+) after (\d+) min
GameOverPattern ==
    [n |-> 6, re |-> Cat(<<Lit("Game Over: "), Grp(1, Rep(Set(Word), 1, Unbounded)),
        Lit(" "), Grp(2, Rep(Set(Word), 1, Unbounded)), Lit(" "), Grp(3,
        Rep(Set(Word), 1, Unbounded)), Lit(" score "), Grp(4,
        Rep(Set(Digit), 1, Unbounded)), Lit(":"), Grp(5, Rep(Set(Digit), 1, Unbounded)),
        Lit(" after "), Grp(6, Rep(Set(Digit), 1, Unbounded)), Lit(" min")>>)]

----------------------------------------------------------------------------
(* The builders.  ti is the time of the line and r the result of           *)
(* FindStringSubmatch, indexed from 0 as in Go.  A message is a record;    *)
(* the embedded Meta is its field Meta.                                    *)

\* The struct types of the messages: for each type its fields in the order of
\* their declaration, each with its name, its json tag and its type.  Every message
\* type embeds Meta in front of its own fields.
Struct ==
    [Player |-> <<<<"Name", "name", "string">>, <<"ID", "id", "int">>,
         <<"SteamID", "steam_id", "string">>, <<"Side", "side", "string">>>>,
     Position |-> <<<<"X", "x", "int">>, <<"Y", "y", "int">>, <<"Z", "z", "int">>>>,
     PositionFloat |-> <<<<"X", "x", "float32">>, <<"Y", "y", "float32">>,
         <<"Z", "z", "float32">>>>,
     Velocity |-> <<<<"X", "x", "float32">>, <<"Y", "y", "float32">>,
         <<"Z", "z", "float32">>>>,
     Equation |-> <<<<"A", "a", "int">>, <<"B", "b", "int">>,
         <<"Result", "result", "int">>>>,
     Meta |-> <<<<"Time", "time", "time.Time">>, <<"Type", "type", "string">>>>,
     ServerMessage |-> <<<<"Text", "text", "string">>>>,
     FreezTimeStart |-> <<>>,
     WorldMatchStart |-> <<<<"Map", "map", "string">>>>,
     WorldRoundStart |-> <<>>,
     WorldRoundRestart |-> <<<<"Timeleft", "timeleft", "int">>>>,
     WorldRoundEnd |-> <<>>,
     WorldGameCommencing |-> <<>>,
     TeamScored |-> <<<<"Side", "side", "string">>, <<"Score", "score", "int">>,
         <<"NumPlayers", "num_players", "int">>>>,
     TeamNotice |-> <<<<"Side", "side", "string">>, <<"Notice", "notice", "string">>,
         <<"ScoreCT", "score_ct", "int">>, <<"ScoreT", "score_t", "int">>>>,
     PlayerConnected |-> <<<<"Player", "player", "Player">>,
         <<"Address", "address", "string">>>>,
     PlayerDisconnected |-> <<<<"Player", "player", "Player">>,
         <<"Reason", "reason", "string">>>>,
     PlayerEntered |-> <<<<"Player", "player", "Player">>>>,
     PlayerBanned |-> <<<<"Player", "player", "Player">>, <<"Duration", "duration", "string">>,
         <<"By", "by", "string">>>>,
     PlayerSwitched |-> <<<<"Player", "player", "Player">>, <<"From", "from", "string">>,
         <<"To", "to", "string">>>>,
     PlayerSay |-> <<<<"Player", "player", "Player">>, <<"Text", "text", "string">>,
         <<"Team", "team", "bool">>>>,
     PlayerPurchase |-> <<<<"Player", "player", "Player">>, <<"Item", "item", "string">>>>,
     PlayerKill |-> <<<<"Attacker", "attacker", "Player">>,
         <<"AttackerPosition", "attacker_pos", "Position">>, <<"Victim", "victim", "Player">>,
         <<"VictimPosition", "victim_pos", "Position">>, <<"Weapon", "weapon", "string">>,
         <<"Headshot", "headshot", "bool">>, <<"Penetrated", "penetrated", "bool">>>>,
     PlayerKillAssist |-> <<<<"Attacker", "attacker", "Player">>,
         <<"Victim", "victim", "Player">>>>,
     PlayerAttack |-> <<<<"Attacker", "attacker", "Player">>,
         <<"AttackerPosition", "attacker_pos", "Position">>, <<"Victim", "victim", "Player">>,
         <<"VictimPosition", "victim_pos", "Position">>, <<"Weapon", "weapon", "string">>,
         <<"Damage", "damage", "int">>, <<"DamageArmor", "damage_armor", "int">>,
         <<"Health", "health", "int">>, <<"Armor", "armor", "int">>,
         <<"Hitgroup", "hitgroup", "string">>>>,
     PlayerKilledBomb |-> <<<<"Player", "player", "Player">>,
         <<"Position", "pos", "Position">>>>,
     PlayerKilledSuicide |-> <<<<"Player", "player", "Player">>,
         <<"Position", "pos", "Position">>, <<"With", "with", "string">>>>,
     PlayerPickedUp |-> <<<<"Player", "player", "Player">>, <<"Item", "item", "string">>>>,
     PlayerDropped |-> <<<<"Player", "player", "Player">>, <<"Item", "item", "string">>>>,
     PlayerMoneyChange |-> <<<<"Player", "player", "Player">>,
         <<"Equation", "equation", "Equation">>, <<"Purchase", "purchase", "string">>>>,
     PlayerBombGot |-> <<<<"Player", "player", "Player">>>>,
     PlayerBombPlanted |-> <<<<"Player", "player", "Player">>>>,
     PlayerBombDropped |-> <<<<"Player", "player", "Player">>>>,
     PlayerBombBeginDefuse |-> <<<<"Player", "player", "Player">>,
         <<"Kit", "kit", "bool">>>>,
     PlayerBombDefused |-> <<<<"Player", "player", "Player">>>>,
     PlayerThrew |-> <<<<"Player", "player", "Player">>, <<"Position", "pos", "Position">>,
         <<"Entindex", "entindex", "int">>, <<"Grenade", "grenade", "string">>>>,
     PlayerBlinded |-> <<<<"Attacker", "attacker", "Player">>,
         <<"Victim", "victim", "Player">>, <<"For", "for", "float32">>,
         <<"Entindex", "entindex", "int">>>>,
     ProjectileSpawned |-> <<<<"Position", "pos", "PositionFloat">>,
         <<"Velocity", "velocity", "Velocity">>>>,
     GameOver |-> <<<<"Mode", "mode", "string">>, <<"MapGroup", "map_group", "string">>,
         <<"Map", "map", "string">>, <<"ScoreCT", "score_ct", "int">>,
         <<"ScoreT", "score_t", "int">>, <<"Duration", "duration", "int">>>>,
     Unknown |-> <<<<"Raw", "raw", "string">>>>]

\* the fields of a message of type ty
FieldsOf(ty) == {"Meta"} \cup {Struct[ty][j][1] : j \in 1..Len(Struct[ty])}

NewMeta(ti, ty) ==
    [Time |-> ti, Type |-> ty]

GetType(m) == m.Meta.Type

GetTime(m) == m.Meta.Time

NewServerMessage(ti, r) ==
    [Meta |-> NewMeta(ti, "ServerMessage"),
     Text |-> r[1]]

NewFreezTimeStart(ti, r) ==
    [Meta |-> NewMeta(ti, "FreezTimeStart")]

NewWorldMatchStart(ti, r) ==
    [Meta |-> NewMeta(ti, "WorldMatchStart"),
     Map |-> r[1]]

NewWorldRoundStart(ti, r) ==
    [Meta |-> NewMeta(ti, "WorldRoundStart")]

NewWorldRoundRestart(ti, r) ==
    [Meta |-> NewMeta(ti, "WorldRoundRestart"),
     Timeleft |-> toInt(r[1])]

\* A wrong builder, to test the properties against: the tag of another type.
NewWorldRoundEndTaggedStart(ti, r) ==
    [Meta |-> NewMeta(ti, "WorldRoundStart")]

NewWorldRoundEnd(ti, r) ==
    [Meta |-> NewMeta(ti, "WorldRoundEnd")]

NewWorldGameCommencing(ti, r) ==
    [Meta |-> NewMeta(ti, "WorldGameCommencing")]

NewTeamScored(ti, r) ==
    [Meta |-> NewMeta(ti, "TeamScored"),
     Side |-> r[1],
     Score |-> toInt(r[2]),
     NumPlayers |-> toInt(r[3])]

NewTeamNotice(ti, r) ==
    [Meta |-> NewMeta(ti, "TeamNotice"),
     Side |-> r[1],
     Notice |-> r[2],
     ScoreCT |-> toInt(r[3]),
     ScoreT |-> toInt(r[4])]

NewPlayerConnected(ti, r) ==
    [Meta |-> NewMeta(ti, "PlayerConnected"),
     Player |-> [Name |-> r[1], ID |-> toInt(r[2]), SteamID |-> r[3], Side |-> ""],
     Address |-> r[4]]

NewPlayerDisconnected(ti, r) ==
    [Meta |-> NewMeta(ti, "PlayerDisconnected"),
     Player |-> [Name |-> r[1], ID |-> toInt(r[2]), SteamID |-> r[3], Side |-> r[4]],
     Reason |-> r[5]]

NewPlayerEntered(ti, r) ==
    [Meta |-> NewMeta(ti, "PlayerEntered"),
     Player |-> [Name |-> r[1], ID |-> toInt(r[2]), SteamID |-> r[3], Side |-> ""]]

NewPlayerBanned(ti, r) ==
    [Meta |-> NewMeta(ti, "PlayerBanned"),
     Player |-> [Name |-> r[1], ID |-> toInt(r[2]), SteamID |-> r[3], Side |-> ""],
     Duration |-> r[4],
     By |-> r[5]]

\* A wrong builder, to test the properties against: the side is the team switched from.
NewPlayerSwitchedSideIsFrom(ti, r) ==
    [Meta |-> NewMeta(ti, "PlayerSwitched"),
     Player |-> [Name |-> r[1], ID |-> toInt(r[2]), SteamID |-> r[3], Side |-> r[4]],
     From |-> r[4],
     To |-> r[5]]

NewPlayerSwitched(ti, r) ==
    [Meta |-> NewMeta(ti, "PlayerSwitched"),
     Player |-> [Name |-> r[1], ID |-> toInt(r[2]), SteamID |-> r[3], Side |-> ""],
     From |-> r[4],
     To |-> r[5]]

NewPlayerSay(ti, r) ==
    [Meta |-> NewMeta(ti, "PlayerSay"),
     Player |-> [Name |-> r[1], ID |-> toInt(r[2]), SteamID |-> r[3], Side |-> r[4]],
     Team |-> r[5] = "_team",
     Text |-> r[6]]

\* A wrong builder, to test the properties against: the item is read one group early.
NewPlayerPurchaseItemFromSide(ti, r) ==
    [Meta |-> NewMeta(ti, "PlayerPurchase"),
     Player |-> [Name |-> r[1], ID |-> toInt(r[2]), SteamID |-> r[3], Side |-> r[4]],
     Item |-> r[4]]

NewPlayerPurchase(ti, r) ==
    [Meta |-> NewMeta(ti, "PlayerPurchase"),
     Player |-> [Name |-> r[1], ID |-> toInt(r[2]), SteamID |-> r[3], Side |-> r[4]],
     Item |-> r[5]]

\* A wrong builder, to test the properties against: the flags compare the whole
\* parenthetical instead of searching it.
NewPlayerKillFlagsByEquality(ti, r) ==
    [Meta |-> NewMeta(ti, "PlayerKill"),
     Attacker |-> [Name |-> r[1], ID |-> toInt(r[2]), SteamID |-> r[3], Side |-> r[4]],
     AttackerPosition |-> [X |-> toInt(r[5]), Y |-> toInt(r[6]), Z |-> toInt(r[7])],
     Victim |-> [Name |-> r[8], ID |-> toInt(r[9]), SteamID |-> r[10], Side |-> r[11]],
     VictimPosition |-> [X |-> toInt(r[12]), Y |-> toInt(r[13]), Z |-> toInt(r[14])],
     Weapon |-> r[15],
     Headshot |-> r[17] = "headshot",
     Penetrated |-> r[17] = "penetrated"]

NewPlayerKill(ti, r) ==
    [Meta |-> NewMeta(ti, "PlayerKill"),
     Attacker |-> [Name |-> r[1], ID |-> toInt(r[2]), SteamID |-> r[3], Side |-> r[4]],
     AttackerPosition |-> [X |-> toInt(r[5]), Y |-> toInt(r[6]), Z |-> toInt(r[7])],
     Victim |-> [Name |-> r[8], ID |-> toInt(r[9]), SteamID |-> r[10], Side |-> r[11]],
     VictimPosition |-> [X |-> toInt(r[12]), Y |-> toInt(r[13]), Z |-> toInt(r[14])],
     Weapon |-> r[15],
     Headshot |-> Contains(r[17], "headshot"),
     Penetrated |-> Contains(r[17], "penetrated")]

NewPlayerKillAssist(ti, r) ==
    [Meta |-> NewMeta(ti, "PlayerKillAssist"),
     Attacker |-> [Name |-> r[1], ID |-> toInt(r[2]), SteamID |-> r[3], Side |-> r[4]],
     Victim |-> [Name |-> r[5], ID |-> toInt(r[6]), SteamID |-> r[7], Side |-> r[8]]]

NewPlayerAttack(ti, r) ==
    [Meta |-> NewMeta(ti, "PlayerAttack"),
     Attacker |-> [Name |-> r[1], ID |-> toInt(r[2]), SteamID |-> r[3], Side |-> r[4]],
     AttackerPosition |-> [X |-> toInt(r[5]), Y |-> toInt(r[6]), Z |-> toInt(r[7])],
     Victim |-> [Name |-> r[8], ID |-> toInt(r[9]), SteamID |-> r[10], Side |-> r[11]],
     VictimPosition |-> [X |-> toInt(r[12]), Y |-> toInt(r[13]), Z |-> toInt(r[14])],
     Weapon |-> r[15],
     Damage |-> toInt(r[16]),
     DamageArmor |-> toInt(r[17]),
     Health |-> toInt(r[18]),
     Armor |-> toInt(r[19]),
     Hitgroup |-> r[20]]

NewPlayerKilledBomb(ti, r) ==
    [Meta |-> NewMeta(ti, "PlayerKilledBomb"),
     Player |-> [Name |-> r[1], ID |-> toInt(r[2]), SteamID |-> r[3], Side |-> r[4]],
     Position |-> [X |-> toInt(r[5]), Y |-> toInt(r[6]), Z |-> toInt(r[7])]]

NewPlayerKilledSuicide(ti, r) ==
    [Meta |-> NewMeta(ti, "PlayerKilledSuicide"),
     Player |-> [Name |-> r[1], ID |-> toInt(r[2]), SteamID |-> r[3], Side |-> r[4]],
     Position |-> [X |-> toInt(r[5]), Y |-> toInt(r[6]), Z |-> toInt(r[7])],
     With |-> r[8]]

NewPlayerPickedUp(ti, r) ==
    [Meta |-> NewMeta(ti, "PlayerPickedUp"),
     Player |-> [Name |-> r[1], ID |-> toInt(r[2]), SteamID |-> r[3], Side |-> r[4]],
     Item |-> r[5]]

NewPlayerDropped(ti, r) ==
    [Meta |-> NewMeta(ti, "PlayerDropped"),
     Player |-> [Name |-> r[1], ID |-> toInt(r[2]), SteamID |-> r[3], Side |-> r[4]],
     Item |-> r[5]]

\* A wrong builder, to test the properties against: the purchase is read from the
\* group around the annotation.
NewPlayerMoneyChangeOuterGroup(ti, r) ==
    [Meta |-> NewMeta(ti, "PlayerMoneyChange"),
     Player |-> [Name |-> r[1], ID |-> toInt(r[2]), SteamID |-> r[3], Side |-> r[4]],
     Equation |-> [A |-> toInt(r[5]), B |-> toInt(r[6]), Result |-> toInt(r[7])],
     Purchase |-> r[8]]

NewPlayerMoneyChange(ti, r) ==
    [Meta |-> NewMeta(ti, "PlayerMoneyChange"),
     Player |-> [Name |-> r[1], ID |-> toInt(r[2]), SteamID |-> r[3], Side |-> r[4]],
     Equation |-> [A |-> toInt(r[5]), B |-> toInt(r[6]), Result |-> toInt(r[7])],
     Purchase |-> r[9]]

NewPlayerBombGot(ti, r) ==
    [Meta |-> NewMeta(ti, "PlayerBombGot"),
     Player |-> [Name |-> r[1], ID |-> toInt(r[2]), SteamID |-> r[3], Side |-> r[4]]]

NewPlayerBombPlanted(ti, r) ==
    [Meta |-> NewMeta(ti, "PlayerBombPlanted"),
     Player |-> [Name |-> r[1], ID |-> toInt(r[2]), SteamID |-> r[3], Side |-> r[4]]]

NewPlayerBombDropped(ti, r) ==
    [Meta |-> NewMeta(ti, "PlayerBombDropped"),
     Player |-> [Name |-> r[1], ID |-> toInt(r[2]), SteamID |-> r[3], Side |-> r[4]]]

\* A wrong builder, to test the properties against: kit is the capture, not its negation.
NewPlayerBombBeginDefuseKitIsOut(ti, r) ==
    [Meta |-> NewMeta(ti, "PlayerBombBeginDefuse"),
     Player |-> [Name |-> r[1], ID |-> toInt(r[2]), SteamID |-> r[3], Side |-> r[4]],
     Kit |-> r[5] = "out"]

NewPlayerBombBeginDefuse(ti, r) ==
    [Meta |-> NewMeta(ti, "PlayerBombBeginDefuse"),
     Player |-> [Name |-> r[1], ID |-> toInt(r[2]), SteamID |-> r[3], Side |-> r[4]],
     Kit |-> ~(r[5] = "out")]

NewPlayerBombDefused(ti, r) ==
    [Meta |-> NewMeta(ti, "PlayerBombDefused"),
     Player |-> [Name |-> r[1], ID |-> toInt(r[2]), SteamID |-> r[3], Side |-> r[4]]]

\* A wrong builder, to test the properties against: entindex is read from the group
\* around the trailing text.
NewPlayerThrewOuterGroup(ti, r) ==
    [Meta |-> NewMeta(ti, "PlayerThrew"),
     Player |-> [Name |-> r[1], ID |-> toInt(r[2]), SteamID |-> r[3], Side |-> r[4]],
     Grenade |-> r[5],
     Position |-> [X |-> toInt(r[6]), Y |-> toInt(r[7]), Z |-> toInt(r[8])],
     Entindex |-> toInt(r[9])]

NewPlayerThrew(ti, r) ==
    [Meta |-> NewMeta(ti, "PlayerThrew"),
     Player |-> [Name |-> r[1], ID |-> toInt(r[2]), SteamID |-> r[3], Side |-> r[4]],
     Grenade |-> r[5],
     Position |-> [X |-> toInt(r[6]), Y |-> toInt(r[7]), Z |-> toInt(r[8])],
     Entindex |-> toInt(r[10])]

NewPlayerBlinded(ti, r) ==
    [Meta |-> NewMeta(ti, "PlayerBlinded"),
     Victim |-> [Name |-> r[1], ID |-> toInt(r[2]), SteamID |-> r[3], Side |-> r[4]],
     For |-> toFloat32(r[5]),
     Attacker |-> [Name |-> r[6], ID |-> toInt(r[7]), SteamID |-> r[8], Side |-> r[9]],
     Entindex |-> toInt(r[10])]

NewProjectileSpawned(ti, r) ==
    [Meta |-> NewMeta(ti, "ProjectileSpawned"),
     Position |-> [X |-> toFloat32(r[1]), Y |-> toFloat32(r[2]), Z |-> toFloat32(r[3])],
     Velocity |-> [X |-> toFloat32(r[4]), Y |-> toFloat32(r[5]), Z |-> toFloat32(r[6])]]

NewGameOver(ti, r) ==
    [Meta |-> NewMeta(ti, "GameOver"),
     Mode |-> r[1],
     MapGroup |-> r[2],
     Map |-> r[3],
     ScoreCT |-> toInt(r[4]),
     ScoreT |-> toInt(r[5]),
     Duration |-> toInt(r[6])]

\* A wrong builder, to test the properties against: raw is the group before the body.
NewUnknownFromFirstGroup(ti, r) ==
    [Meta |-> NewMeta(ti, "Unknown"),
     Raw |-> r[0]]

NewUnknown(ti, r) ==
    [Meta |-> NewMeta(ti, "Unknown"),
     Raw |-> r[1]]

----------------------------------------------------------------------------
(* The catalog: a Go map from compiled pattern to builder, here the set of *)
(* its <<pattern, builder>> entries.                                       *)

DefaultPatterns ==
    {<<ServerMessagePattern, "NewServerMessage">>,
     <<FreezTimeStartPattern, "NewFreezTimeStart">>,
     <<WorldMatchStartPattern, "NewWorldMatchStart">>,
     <<WorldRoundStartPattern, "NewWorldRoundStart">>,
     <<WorldRoundRestartPattern, "NewWorldRoundRestart">>,
     <<WorldRoundEndPattern, "NewWorldRoundEnd">>,
     <<WorldGameCommencingPattern, "NewWorldGameCommencing">>,
     <<TeamScoredPattern, "NewTeamScored">>,
     <<TeamNoticePattern, "NewTeamNotice">>,
     <<PlayerConnectedPattern, "NewPlayerConnected">>,
     <<PlayerDisconnectedPattern, "NewPlayerDisconnected">>,
     <<PlayerEnteredPattern, "NewPlayerEntered">>,
     <<PlayerBannedPattern, "NewPlayerBanned">>,
     <<PlayerSwitchedPattern, "NewPlayerSwitched">>,
     <<PlayerSayPattern, "NewPlayerSay">>,
     <<PlayerPurchasePattern, "NewPlayerPurchase">>,
     <<PlayerKillPattern, "NewPlayerKill">>,
     <<PlayerKillAssistPattern, "NewPlayerKillAssist">>,
     <<PlayerAttackPattern, "NewPlayerAttack">>,
     <<PlayerKilledBombPattern, "NewPlayerKilledBomb">>,
     <<PlayerKilledSuicidePattern, "NewPlayerKilledSuicide">>,
     <<PlayerPickedUpPattern, "NewPlayerPickedUp">>,
     <<PlayerDroppedPattern, "NewPlayerDropped">>,
     <<PlayerMoneyChangePattern, "NewPlayerMoneyChange">>,
     <<PlayerBombGotPattern, "NewPlayerBombGot">>,
     <<PlayerBombPlantedPattern, "NewPlayerBombPlanted">>,
     <<PlayerBombDroppedPattern, "NewPlayerBombDropped">>,
     <<PlayerBombBeginDefusePattern, "NewPlayerBombBeginDefuse">>,
     <<PlayerBombDefusedPattern, "NewPlayerBombDefused">>,
     <<PlayerThrewPattern, "NewPlayerThrew">>,
     <<PlayerBlindedPattern, "NewPlayerBlinded">>,
     <<ProjectileSpawnedPattern, "NewProjectileSpawned">>,
     <<GameOverPattern, "NewGameOver">>}

\* the call fun(ti, r) of the builder an entry names
Call(fun, ti, r) ==
    CASE fun = "NewServerMessage" -> NewServerMessage(ti, r)
      [] fun = "NewFreezTimeStart" -> NewFreezTimeStart(ti, r)
      [] fun = "NewWorldMatchStart" -> NewWorldMatchStart(ti, r)
      [] fun = "NewWorldRoundStart" -> NewWorldRoundStart(ti, r)
      [] fun = "NewWorldRoundRestart" -> NewWorldRoundRestart(ti, r)
      [] fun = "NewWorldRoundEnd" -> NewWorldRoundEnd(ti, r)
      [] fun = "NewWorldGameCommencing" -> NewWorldGameCommencing(ti, r)
      [] fun = "NewTeamScored" -> NewTeamScored(ti, r)
      [] fun = "NewTeamNotice" -> NewTeamNotice(ti, r)
      [] fun = "NewPlayerConnected" -> NewPlayerConnected(ti, r)
      [] fun = "NewPlayerDisconnected" -> NewPlayerDisconnected(ti, r)
      [] fun = "NewPlayerEntered" -> NewPlayerEntered(ti, r)
      [] fun = "NewPlayerBanned" -> NewPlayerBanned(ti, r)
      [] fun = "NewPlayerSwitched" -> NewPlayerSwitched(ti, r)
      [] fun = "NewPlayerSay" -> NewPlayerSay(ti, r)
      [] fun = "NewPlayerPurchase" -> NewPlayerPurchase(ti, r)
      [] fun = "NewPlayerKill" -> NewPlayerKill(ti, r)
      [] fun = "NewPlayerKillAssist" -> NewPlayerKillAssist(ti, r)
      [] fun = "NewPlayerAttack" -> NewPlayerAttack(ti, r)
      [] fun = "NewPlayerKilledBomb" -> NewPlayerKilledBomb(ti, r)
      [] fun = "NewPlayerKilledSuicide" -> NewPlayerKilledSuicide(ti, r)
      [] fun = "NewPlayerPickedUp" -> NewPlayerPickedUp(ti, r)
      [] fun = "NewPlayerDropped" -> NewPlayerDropped(ti, r)
      [] fun = "NewPlayerMoneyChange" -> NewPlayerMoneyChange(ti, r)
      [] fun = "NewPlayerBombGot" -> NewPlayerBombGot(ti, r)
      [] fun = "NewPlayerBombPlanted" -> NewPlayerBombPlanted(ti, r)
      [] fun = "NewPlayerBombDropped" -> NewPlayerBombDropped(ti, r)
      [] fun = "NewPlayerBombBeginDefuse" -> NewPlayerBombBeginDefuse(ti, r)
      [] fun = "NewPlayerBombDefused" -> NewPlayerBombDefused(ti, r)
      [] fun = "NewPlayerThrew" -> NewPlayerThrew(ti, r)
      [] fun = "NewPlayerBlinded" -> NewPlayerBlinded(ti, r)
      [] fun = "NewProjectileSpawned" -> NewProjectileSpawned(ti, r)
      [] fun = "NewGameOver" -> NewGameOver(ti, r)

----------------------------------------------------------------------------
(* time.Parse("01/02/2006 - 15:04:05", value) for a value of the shape     *)
(* dd/dd/dddd - dd:dd:dd, which is what group 1 of LogLinePattern holds.   *)
(* The fields are read left to right and a month, hour, minute or second   *)
(* out of range ends the parse where it is read; the day is validated      *)
(* against the month and the year after all fields are read.               *)

IsLeap(year) == year % 4 = 0 /\ (year % 100 # 0 \/ year % 400 = 0)

daysIn(month, year) ==
    IF month = 2 THEN (IF IsLeap(year) THEN 29 ELSE 28)
    ELSE IF month \in {4, 6, 9, 11} THEN 30 ELSE 31

TimeField(value, from, to) == DecimalValue(SubSeq(value, from, to), to - from + 1)

RangeError(value, what) == Some("parsing time \"" \o value \o "\": " \o what \o " out of range")

\* A wrong layout, to test the properties against: "02/01/2006 - 15:04:05", the day
\* in front of the month.
TimeParseDayFirst(value) ==
    LET day   == TimeField(value, 1, 2)
        month == TimeField(value, 4, 5)
        year  == TimeField(value, 7, 10)
        hour  == TimeField(value, 14, 15)
        min   == TimeField(value, 17, 18)
        sec   == TimeField(value, 20, 21)
        none  == [Year |-> 1, Month |-> 1, Day |-> 1, Hour |-> 0, Min |-> 0, Sec |-> 0,
                  Loc |-> "UTC"]
    IN IF month <= 0 \/ 12 < month THEN [ti |-> none, err |-> RangeError(value, "month")]
       ELSE IF 24 <= hour THEN [ti |-> none, err |-> RangeError(value, "hour")]
       ELSE IF 60 <= min THEN [ti |-> none, err |-> RangeError(value, "minute")]
       ELSE IF 60 <= sec THEN [ti |-> none, err |-> RangeError(value, "second")]
       ELSE IF day < 1 \/ day > daysIn(month, year)
       THEN [ti |-> none, err |-> RangeError(value, "day")]
       ELSE [ti  |-> [Year |-> year, Month |-> month, Day |-> day, Hour |-> hour,
                      Min |-> min, Sec |-> sec, Loc |-> "UTC"],
             err |-> Nil]

TimeParse(value) ==
    LET month == TimeField(value, 1, 2)
        day   == TimeField(value, 4, 5)
        year  == TimeField(value, 7, 10)
        hour  == TimeField(value, 14, 15)
        min   == TimeField(value, 17, 18)
        sec   == TimeField(value, 20, 21)
        none  == [Year |-> 1, Month |-> 1, Day |-> 1, Hour |-> 0, Min |-> 0, Sec |-> 0,
                  Loc |-> "UTC"]
    IN IF month <= 0 \/ 12 < month THEN [ti |-> none, err |-> RangeError(value, "month")]
       ELSE IF 24 <= hour THEN [ti |-> none, err |-> RangeError(value, "hour")]
       ELSE IF 60 <= min THEN [ti |-> none, err |-> RangeError(value, "minute")]
       ELSE IF 60 <= sec THEN [ti |-> none, err |-> RangeError(value, "second")]
       ELSE IF day < 1 \/ day > daysIn(month, year)
       THEN [ti |-> none, err |-> RangeError(value, "day")]
       ELSE [ti  |-> [Year |-> year, Month |-> month, Day |-> day, Hour |-> hour,
                      Min |-> min, Sec |-> sec, Loc |-> "UTC"],
             err |-> Nil]

----------------------------------------------------------------------------
(* Parse.                                                                  *)

\* regexp.Regexp.NumSubexp: the number of groups of an expression, which is the
\* highest index of the slice that FindStringSubmatch returns
RECURSIVE GroupsOf(_)
GroupsOf(re) ==
    CASE re.t \in {"lit", "set", "any"} -> {}
      [] re.t \in {"rep", "opt"} -> GroupsOf(re.r)
      [] re.t = "grp" -> {re.n} \cup GroupsOf(re.r)
      [] re.t \in {"alt", "cat"} -> UNION {GroupsOf(re.rs[j]) : j \in 1..Len(re.rs)}

NumSubexp(p) == Cardinality(GroupsOf(p.re))

\* A wrong builder table, to test the properties against: NewPlayerKill reads
\* one group more than its pattern has.
HighestIndexReadOneMore(fun) ==
    IF fun = "NewPlayerKill" THEN 18 ELSE 0

\* the highest index of r that a builder reads, 0 for a builder that reads none
HighestIndexRead(fun) ==
    CASE fun \in {"NewFreezTimeStart", "NewWorldRoundStart", "NewWorldRoundEnd",
                  "NewWorldGameCommencing"} -> 0
      [] fun \in {"NewServerMessage", "NewWorldMatchStart", "NewWorldRoundRestart",
                  "NewUnknown"} -> 1
      [] fun \in {"NewTeamScored", "NewPlayerEntered"} -> 3
      [] fun \in {"NewTeamNotice", "NewPlayerConnected", "NewPlayerBombGot",
                  "NewPlayerBombPlanted", "NewPlayerBombDropped",
                  "NewPlayerBombDefused"} -> 4
      [] fun \in {"NewPlayerDisconnected", "NewPlayerBanned", "NewPlayerSwitched",
                  "NewPlayerPurchase", "NewPlayerPickedUp", "NewPlayerDropped",
                  "NewPlayerBombBeginDefuse"} -> 5
      [] fun \in {"NewPlayerSay", "NewProjectileSpawned", "NewGameOver"} -> 6
      [] fun = "NewPlayerKilledBomb" -> 7
      [] fun \in {"NewPlayerKillAssist", "NewPlayerKilledSuicide"} -> 8
      [] fun = "NewPlayerMoneyChange" -> 9
      [] fun \in {"NewPlayerThrew", "NewPlayerBlinded"} -> 10
      [] fun = "NewPlayerKill" -> 17
      [] fun = "NewPlayerAttack" -> 20

\* the Go slice r[1:]
SliceFrom1(r) == [j \in 0..(Cardinality(DOMAIN r) - 2) |-> r[j + 1]]

\* A wrong search, to test the properties against: a pattern has to match all of
\* the body.
MatchesWholeBody(patterns, body) ==
    {x \in {<<e[2], FindStringSubmatch(e[1], body)>> : e \in patterns} :
        x[2].ok /\ x[2].r[0] = body}

\* the entries of patterns whose pattern matches body, each with its match
Matches(patterns, body) ==
    {x \in {<<e[2], FindStringSubmatch(e[1], body)>> : e \in patterns} : x[2].ok}

\* A wrong Parse, to test the properties against: the error of time.Parse is dropped.
ParseWithPatternsTimeErrorDropped(line, patterns) ==
    LET result == FindStringSubmatch(LogLinePattern, line)
    IN IF ~result.ok THEN {[msg |-> Nil, err |-> Some(ErrorNoMatch), hits |-> {}]}
       ELSE LET t    == TimeParse(result.r[1])
                hits == Matches(patterns, result.r[2])
            IN IF hits = {}
               THEN {[msg |-> Some(NewUnknown(t.ti, SliceFrom1(result.r))),
                      err |-> Nil, hits |-> {}]}
               ELSE {[msg  |-> Some(Call(x[1], t.ti, x[2].r)), err |-> Nil,
                      hits |-> {y[1] : y \in hits}] : x \in hits}

\* A wrong Parse, to test the properties against: a body no pattern matches is an
\* error.
ParseWithPatternsUnknownIsError(line, patterns) ==
    LET result == FindStringSubmatch(LogLinePattern, line)
    IN IF ~result.ok THEN {[msg |-> Nil, err |-> Some(ErrorNoMatch), hits |-> {}]}
       ELSE LET t == TimeParse(result.r[1])
            IN IF t.err # Nil THEN {[msg |-> Nil, err |-> t.err, hits |-> {}]}
               ELSE LET hits == Matches(patterns, result.r[2])
                    IN IF hits = {}
                       THEN {[msg |-> Nil, err |-> Some(ErrorNoMatch), hits |-> {}]}
                       ELSE {[msg  |-> Some(Call(x[1], t.ti, x[2].r)), err |-> Nil,
                              hits |-> {y[1] : y \in hits}] : x \in hits}

\* ParseWithPatterns(line, patterns): the set of the results [msg, err] it can
\* return.  Go ranges over the map in an order that differs from run to run and
\* the loop returns at the first entry that matches, so every matching entry
\* can be the one that builds the message.  hits names the builders of the
\* entries that match, for the history variable of the state machine.
ParseWithPatterns(line, patterns) ==
    LET result == FindStringSubmatch(LogLinePattern, line)
    IN IF ~result.ok THEN {[msg |-> Nil, err |-> Some(ErrorNoMatch), hits |-> {}]}
       ELSE LET t == TimeParse(result.r[1])
            IN IF t.err # Nil THEN {[msg |-> Nil, err |-> t.err, hits |-> {}]}
               ELSE LET hits == Matches(patterns, result.r[2])
                    IN IF hits = {}
                       THEN {[msg |-> Some(NewUnknown(t.ti, SliceFrom1(result.r))),
                              err |-> Nil, hits |-> {}]}
                       ELSE {[msg  |-> Some(Call(x[1], t.ti, x[2].r)), err |-> Nil,
                              hits |-> {y[1] : y \in hits}] : x \in hits}

Parse(line) == ParseWithPatterns(line, DefaultPatterns)

----------------------------------------------------------------------------
(* Package csgolog.  Its types, builders and Parse are those above; its    *)
(* patterns differ in three places: the name of a player is (\w+) where    *)
(* it is (.+) above, a steam id is ([\w:]+) where it is ([\[\]\w:]+), and  *)
(* PlayerSwitchedPattern knows no team Spectator.                          *)

\* A wrong pattern, to test the properties against: as csgologPattern, the team
\* of a player being any word.
csgologPatternAnyTeam(p) ==
    IF p.re.t # "cat" THEN p
    ELSE LET rs == p.re.rs
             Name(j) == /\ rs[j] = Grp(rs[j].n, Rep(AnyChar, 1, Unbounded))
                        /\ j < Len(rs)
                        /\ rs[j + 1].t = "lit"
                        /\ Char(rs[j + 1].s, 1) = "<"
             SteamID(j) == rs[j] = Grp(rs[j].n, Rep(Set(Word \cup {"[", "]", ":"}), 1, Unbounded))
             Team(j) == rs[j] = Grp(rs[j].n, Alt(<<Lit("TERRORIST"), Lit("CT")>>))
         IN [p EXCEPT !.re = Cat([j \in 1..Len(rs) |->
                IF rs[j].t # "grp" THEN rs[j]
                ELSE IF Name(j) THEN Grp(rs[j].n, Rep(Set(Word), 1, Unbounded))
                ELSE IF SteamID(j) THEN Grp(rs[j].n, Rep(Set(Word \cup {":"}), 1, Unbounded))
                ELSE IF Team(j) THEN Grp(rs[j].n, Rep(Set(Word), 0, Unbounded))
                ELSE rs[j]])]

\* the pattern of package csgolog for the pattern p of package cs2
csgologPattern(p) ==
    IF p.re.t # "cat" THEN p
    ELSE LET rs == p.re.rs
             Name(j) == /\ rs[j] = Grp(rs[j].n, Rep(AnyChar, 1, Unbounded))
                        /\ j < Len(rs)
                        /\ rs[j + 1].t = "lit"
                        /\ Char(rs[j + 1].s, 1) = "<"
             SteamID(j) == rs[j] = Grp(rs[j].n, Rep(Set(Word \cup {"[", "]", ":"}), 1, Unbounded))
             Teams(j) == rs[j] = Grp(rs[j].n, Alt(<<Lit("Unassigned"), Lit("Spectator"),
                                                    Lit("TERRORIST"), Lit("CT")>>))
         IN [p EXCEPT !.re = Cat([j \in 1..Len(rs) |->
                IF rs[j].t # "grp" THEN rs[j]
                ELSE IF Name(j) THEN Grp(rs[j].n, Rep(Set(Word), 1, Unbounded))
                ELSE IF SteamID(j) THEN Grp(rs[j].n, Rep(Set(Word \cup {":"}), 1, Unbounded))
                ELSE IF Teams(j)
                     THEN Grp(rs[j].n, Alt(<<Lit("Unassigned"), Lit("TERRORIST"), Lit("CT")>>))
                ELSE rs[j]])]

\* var patterns of package csgolog, its builders under the names of package cs2
csgologPatterns == {<<csgologPattern(e[1]), e[2]>> : e \in DefaultPatterns}

\* Parse of package csgolog
csgologParse(line) == ParseWithPatterns(line, csgologPatterns)

----------------------------------------------------------------------------
(* ToJSON: json.NewEncoder with SetEscapeHTML(false).  A struct is written *)
(* as its fields in the order of their declaration, those of the embedded  *)
(* Meta first, each under its json tag; Encode ends the text with a line   *)
(* break.                                                                  *)

\* the decimal texts of numbers
DigitChar(d) == Char("0123456789", d + 1)

Pad2(n) == DigitChar((n \div 10) % 10) \o DigitChar(n % 10)

Pad4(n) == Pad2(n \div 100) \o Pad2(n % 100)

RECURSIVE Itoa(_)
Itoa(n) ==
    IF n < 0 THEN "-" \o Itoa(0 - n)
    ELSE IF n < 10 THEN DigitChar(n)
    ELSE Itoa(n \div 10) \o DigitChar(n % 10)

\* A wrong escape, to test the properties against: the escapes of an encoder that
\* is left with SetEscapeHTML(true).
EscapeCharHTML(c) ==
    CASE c = "\"" -> "\\\""
      [] c = "\\" -> "\\\\"
      [] c = "\n" -> "\\n"
      [] c = "\r" -> "\\r"
      [] c = "\t" -> "\\t"
      [] c = "<" -> "\\u003c"
      [] c = ">" -> "\\u003e"
      [] c = "&" -> "\\u0026"
      [] OTHER -> c

\* a character inside a JSON string, with escapeHTML off
EscapeChar(c) ==
    CASE c = "\"" -> "\\\""
      [] c = "\\" -> "\\\\"
      [] c = "\n" -> "\\n"
      [] c = "\r" -> "\\r"
      [] c = "\t" -> "\\t"
      [] OTHER -> c

RECURSIVE Escape(_, _, _)
\* the characters i to j of s inside a JSON string
Escape(s, i, j) ==
    IF i > j THEN ""
    ELSE IF i = j THEN EscapeChar(Char(s, i))
    ELSE LET m == (i + j) \div 2 IN Escape(s, i, m) \o Escape(s, m + 1, j)

RECURSIVE JSONValue(_, _), JSONFields(_, _, _)
\* the value v of type ty.  A time is written as RFC 3339; a float32 as its
\* decimal digits, which is what the encoder writes for a value of up to six
\* significant digits.
JSONValue(v, ty) ==
    CASE ty = "string" -> "\"" \o Escape(v, 1, Len(v)) \o "\""
      [] ty = "int" -> Itoa(v)
      [] ty = "bool" -> IF v THEN "true" ELSE "false"
      [] ty = "time.Time" ->
            "\"" \o Pad4(v.Year) \o "-" \o Pad2(v.Month) \o "-" \o Pad2(v.Day) \o "T"
                \o Pad2(v.Hour) \o ":" \o Pad2(v.Min) \o ":" \o Pad2(v.Sec) \o "Z\""
      [] ty = "float32" ->
            LET n     == Len(v.digits) + v.exp
                zeros == [j \in 1..(0 - n) |-> "0"]
                whole == IF n <= 0 THEN "0" ELSE SubSeq(v.digits, 1, n)
                frac  == IF n <= 0 THEN Escape(zeros, 1, 0 - n) \o v.digits
                         ELSE SubSeq(v.digits, n + 1, Len(v.digits))
            IN (IF v.neg THEN "-" ELSE "") \o whole \o (IF frac = "" THEN "" ELSE "." \o frac)
      [] OTHER -> "{" \o JSONFields(v, Struct[ty], 1) \o "}"

\* the fields of v from the j-th of fields on, separated by commas
JSONFields(v, fields, j) ==
    IF j > Len(fields) THEN ""
    ELSE "\"" \o fields[j][2] \o "\":" \o JSONValue(v[fields[j][1]], fields[j][3])
            \o (IF j < Len(fields) THEN "," \o JSONFields(v, fields, j + 1) ELSE "")

\* ToJSON(m), m a Message or Nil
ToJSON(m) ==
    IF m = Nil THEN "null\n"
    ELSE LET own == Struct[m[1].Meta.Type]
         IN "{" \o JSONFields(m[1].Meta, Struct.Meta, 1)
                \o (IF Len(own) = 0 THEN "" ELSE "," \o JSONFields(m[1], own, 1)) \o "}\n"

----------------------------------------------------------------------------
(* The lines Parse is given.  An input says what a line holds: the text in *)
(* front of the prefix (pre), the date and time of the prefix as numbers   *)
(* (ts), what the body says (form) and the line break after it (nl).       *)
(* Line renders it to the text of the line, the way the server writes it   *)
(* and the helper line() of the tests does.                                *)

\* the longest free text (a chat text, a player name, an unknown body), in pieces
MaxPieces == 2

\* MM/DD/YYYY - HH:MM:SS
Stamp(ts) ==
    Pad2(ts.Month) \o "/" \o Pad2(ts.Day) \o "/" \o Pad4(ts.Year) \o " - "
        \o Pad2(ts.Hour) \o ":" \o Pad2(ts.Min) \o ":" \o Pad2(ts.Sec)

At(mo, d, y, h, mi, s) ==
    [Year |-> y, Month |-> mo, Day |-> d, Hour |-> h, Min |-> mi, Sec |-> s, Loc |-> "UTC"]

\* the prefix of the tests
TestStamp == At(11, 5, 2018, 15, 44, 36)

\* day 50, of the test "error parse date"
BadDayStamp == At(11, 50, 2018, 15, 44, 36)

GoodStamps ==
    {TestStamp, At(2, 29, 2020, 0, 0, 0), At(2, 29, 2000, 12, 0, 59), At(12, 31, 1999, 23, 59, 59),
     At(1, 1, 0, 0, 0, 0), At(4, 30, 2018, 1, 2, 3), At(2, 28, 1900, 9, 9, 9)}

BadStamps ==
    {BadDayStamp, At(13, 5, 2018, 15, 44, 36), At(0, 5, 2018, 15, 44, 36),
     At(11, 0, 2018, 15, 44, 36), At(11, 31, 2018, 15, 44, 36), At(2, 30, 2020, 15, 44, 36),
     At(2, 29, 2018, 15, 44, 36), At(2, 29, 1900, 15, 44, 36), At(11, 5, 2018, 24, 0, 0),
     At(11, 5, 2018, 15, 60, 36), At(11, 5, 2018, 15, 44, 60), At(99, 99, 9999, 99, 99, 99)}

\* "name<id><steam_id><side>"
PlayerText(p) ==
    "\"" \o p.Name \o "<" \o Itoa(p.ID) \o "><" \o p.SteamID \o "><" \o p.Side \o ">\""

\* [x y z]
PositionText(p) == "[" \o Itoa(p.X) \o " " \o Itoa(p.Y) \o " " \o Itoa(p.Z) \o "]"

\* the body a form says
Body(form) ==
    CASE form.k = "raw" -> form.text
      [] form.k = "purchase" -> PlayerText(form.player) \o " purchased \"" \o form.item \o "\""
      [] form.k = "say" ->
            PlayerText(form.player) \o " say" \o (IF form.team THEN "_team" ELSE "")
                \o " \"" \o form.text \o "\""
      [] form.k = "kill" ->
            PlayerText(form.attacker) \o " " \o PositionText(form.attackerPos) \o " killed "
                \o PlayerText(form.victim) \o " " \o PositionText(form.victimPos)
                \o " with \"" \o form.weapon \o "\"" \o form.tail
      [] form.k = "scored" ->
            "Team \"" \o form.side \o "\" scored \"" \o form.score \o "\" with \""
                \o form.players \o "\" players"
      [] form.k = "defuse" ->
            PlayerText(form.player) \o " triggered \"Begin_Bomb_Defuse_With"
                \o (IF form.kit THEN "" ELSE "out") \o "_Kit\""
      [] form.k = "threw" ->
            PlayerText(form.player) \o " threw " \o form.grenade \o " "
                \o PositionText(form.position)
                \o (IF form.entindex = Nil THEN ""
                    ELSE " flashbang entindex " \o Itoa(form.entindex[1]))
                \o (IF form.paren THEN ")" ELSE "")
      [] form.k = "sided" -> form.head \o PlayerText(form.player) \o form.rest
      [] form.k = "within" -> form.before \o form.text \o form.after
      [] form.k = "number" ->
           (CASE form.field = "id" ->
                    "\"Player<" \o form.digits \o "><STEAM_1:1:0101011><CT>\" purchased \"m4a1\""
              [] form.field = "score" ->
                    "Team \"CT\" scored \"" \o form.digits \o "\" with \"5\" players"
              [] form.field = "coordinate" ->
                    PlayerText(form.player) \o " threw flashbang [" \o form.sign \o form.digits
                        \o " -1636 170]"
              [] form.field = "money" ->
                    PlayerText(form.player) \o " money change " \o form.digits
                        \o "+300 = $8000 (tracked)")
      [] form.k = "money" ->
            PlayerText(form.player) \o " money change " \o Itoa(form.a) \o form.sign
                \o Itoa(form.b) \o " = $" \o Itoa(form.result) \o " (tracked)"
                \o (IF form.purchase = "" THEN ""
                    ELSE " (purchase: " \o form.purchase \o ")")

\* the text of the line
Line(in) ==
    IF in.stamped
    THEN in.pre \o "L " \o Stamp(in.ts) \o ": " \o Body(in.form) \o in.nl
    ELSE in.pre

Raw(text) == [k |-> "raw", text |-> text]

\* the bodies of the tests, one or more for every pattern of the catalog
TestBodies ==
    {"foo",
     "server_message: \"quit\"",
     "Starting Freeze period",
     "World triggered \"Match_Start\" on \"de_cache\"",
     "World triggered \"Restart_Round_(1_second)",
     "World triggered \"Round_Start\"",
     "World triggered \"Round_End\"",
     "World triggered \"Game_Commencing\"",
     "\"Player-Name<12><[U:1:29384012]><TERRORIST>\" purchased \"m4a1\"",
     "Team \"TERRORIST\" scored \"1\" with \"5\" players",
     "Team \"CT\" scored \"1\" with \"5\" players",
     "Team \"CT\" triggered \"SFUI_Notice_CTs_Win\" (CT \"1\") (T \"0\")",
     "\"Player-Name<12><[U:1:29384012]><>\" connected, address \"foo\"",
     "\"Player-Name<12><[U:1:29384012]><TERRORIST>\" disconnected (reason \"Kicked by Console : For killing a teammate at round start\")",
     "\"Player-Name<12><[U:1:29384012]><>\" entered the game",
     "\"Player-Name<12><[U:1:29384012]>\" switched from team <TERRORIST> to <Spectator>",
     "\"Player-Name<12><[U:1:29384012]><TERRORIST>\" say_team \".ready\"",
     "\"Player-Name<12><[U:1:29384012]><TERRORIST>\" [-225 -1829 -168] killed \"Zim<20><BOT><CT>\" [-476 -1709 -110] with \"glock\"",
     "\"Player-Name<12><[U:1:29384012]><TERRORIST>\" [-225 -1829 -168] killed \"Zim<20><BOT><CT>\" [-476 -1709 -110] with \"glock\" (headshot penetrated)",
     "\"Player-Name<10><STEAM_1:1:0101010><CT>\" assisted killing \"Player-Name<12><[U:1:29384012]><TERRORIST>\"",
     "\"Player-Name<2><[U:1:29384012]><TERRORIST>\" [480 -67 1782] attacked \"Jon<9><BOT><CT>\" [-134 362 1613] with \"ak47\" (damage \"27\") (damage_armor \"3\") (health \"73\") (armor \"96\") (hitgroup \"chest\")",
     "\"Player-Name<2><[U:1:29384012]><TERRORIST>\" [480 -67 1782] was killed by the bomb.",
     "\"Player-Name<2><[U:1:29384012]><TERRORIST>\" [480 -67 1782] committed suicide with \"hegrenade\"",
     "\"Player-Name<2><[U:1:29384012]><TERRORIST>\" picked up \"ump45\"",
     "\"Player-Name<2><[U:1:29384012]><TERRORIST>\" dropped \"knife\"",
     "\"Player-Name<2><[U:1:29384012]><TERRORIST>\" money change 2050-1000 = $1050 (tracked) (purchase: item_assaultsuit)",
     "\"Player-Name<2><[U:1:29384012]><TERRORIST>\" money change 7700+300 = $8000 (tracked)",
     "\"Player-Name<2><[U:1:29384012]><TERRORIST>\" triggered \"Got_The_Bomb\"",
     "\"Player-Name<2><[U:1:29384012]><TERRORIST>\" triggered \"Planted_The_Bomb\"",
     "\"Player-Name<2><[U:1:29384012]><TERRORIST>\" triggered \"Dropped_The_Bomb\"",
     "\"Player-Name<2><[U:1:29384012]><TERRORIST>\" triggered \"Defused_The_Bomb\"",
     "\"Player-Name<2><[U:1:29384012]><CT>\" triggered \"Begin_Bomb_Defuse_With_Kit\"",
     "\"Player-Name<2><[U:1:29384012]><CT>\" triggered \"Begin_Bomb_Defuse_Without_Kit\"",
     "\"Player-Name<12><[U:1:29384012]><TERRORIST>\" threw smokegrenade [-716 -1636 -170]",
     "\"Player-Name<12><[U:1:29384012]><TERRORIST>\" threw flashbang [-716 -1636 -170] flashbang entindex 163)",
     "\"Player-Name<12><[U:1:29384012]><TERRORIST>\" blinded for 3.45 by \"Player-Name<10><STEAM_1:1:0101010><CT>\" from flashbang entindex 163",
     "Molotov projectile spawned at -539.715820 -2332.986572 -100.142113, velocity -77.150497 824.855957 175.574585",
     "Game Over: competitive mg_de_cache de_cache score 16:1 after 21 min",
     "Banid: \"Player-Name<12><[U:1:29384012]><>\" was banned \"for 15.00 minutes\" by \"Console\"",
     "\"Player-Name<12><STEAM_1:1:0101010><CT>\" [-854 396 -286] does FOO BAR BAZ"}

\* what free text is made of: a letter, a blank, a quote, and a sentence of the log
Pieces == {"a", " ", "\"", "Starting Freeze period"}

RECURSIVE TextsOf(_)
\* the texts of exactly n pieces
TextsOf(n) == IF n = 0 THEN {""} ELSE {t \o p : t \in TextsOf(n - 1), p \in Pieces}

\* the free texts of at most MaxPieces pieces
Texts == UNION {TextsOf(n) : n \in 0..MaxPieces}

Players ==
    {[Name |-> "Player-Name", ID |-> 12, SteamID |-> "[U:1:29384012]", Side |-> "TERRORIST"],
     [Name |-> "Zim", ID |-> 20, SteamID |-> "BOT", Side |-> "CT"]}

\* the player of the README
Player12 == [Name |-> "Player", ID |-> 12, SteamID |-> "STEAM_1:1:0101011", Side |-> "CT"]

Pos(x, y, z) == [X |-> x, Y |-> y, Z |-> z]

\* what follows the weapon of a kill line
KillTails == {"", " (headshot)", " (penetrated)", " (headshot penetrated)"}

\* purchases of players whose name is free text; names with brackets, quotes and
\* punctuation, one of them holding the end of a chat line, with a steam id of
\* either form
PurchaseForms ==
    {[k |-> "purchase", player |-> [Player12 EXCEPT !.Name = n], item |-> "m4a1"] :
        n \in {"Player"} \cup (Texts \ {""})}
        \cup {[k |-> "purchase", player |-> [Player12 EXCEPT !.Name = n, !.SteamID = s],
               item |-> "m4a1"] :
                 n \in {"a<b", "<", ">", "<12><BOT><CT>", "!?.,;:-_ #", "x>\" purchased \"y",
                        "x<1><BOT><CT>\" say \"hi"},
                 s \in {"STEAM_1:1:0101010", "[U:1:29384012]"}}

SayForms ==
    {[k |-> "say", player |-> Player12, team |-> tm, text |-> t] :
        tm \in BOOLEAN, t \in Texts}

\* what else can follow the weapon in parentheses: the two words the other way
\* round, another word after or instead of them, nothing
OtherKillTails ==
    {" (penetrated headshot)", " (headshot noscope)", " (headshot penetrated noscope)",
     " (noscope)", " ()"}

KillForms ==
    {[k |-> "kill", attacker |-> a, attackerPos |-> Pos(-225, -1829, -168), victim |-> v,
      victimPos |-> Pos(-476, 0, 110), weapon |-> "glock", tail |-> tl] :
        a \in Players, v \in Players, tl \in KillTails \cup OtherKillTails}

MoneyForms ==
    {[k |-> "money", player |-> Player12, a |-> 2050, sign |-> "", b |-> -1000,
      result |-> 1050, purchase |-> pu] : pu \in {"", "item_assaultsuit"}}
    \cup {[k |-> "money", player |-> Player12, a |-> 7700, sign |-> "+", b |-> 300,
           result |-> 8000, purchase |-> pu] : pu \in {"", "item_assaultsuit"}}

\* what stands where a number is expected: digits, and text that is no number
NumberTexts == {"1", "5", "016", "", "abc", "1a", "a1", "-1", "1.5", " 1"}

\* Team "side" scored "score" with "players" players, score and players as written
ScoredForms ==
    {[k |-> "scored", side |-> "CT", score |-> s, players |-> "5"] : s \in NumberTexts}
        \cup {[k |-> "scored", side |-> "TERRORIST", score |-> "1", players |-> n] :
                  n \in NumberTexts}

DefuseForms ==
    {[k |-> "defuse", player |-> pl, kit |-> kit] :
        pl \in Players \cup {Player12}, kit \in BOOLEAN}

\* a throw, without and with the text flashbang entindex N, and the ) the log
\* writes after it
ThrewForms ==
    {[k |-> "threw", player |-> pl, grenade |-> "flashbang", position |-> Pos(-716, -1636, 170),
      entindex |-> e, paren |-> pa] :
        pl \in Players, e \in {Nil, Some(163), Some(0)}, pa \in BOOLEAN}

\* lines of one player, the side between the last brackets being any of the sides
\* of the log, none, or something else
SidedForms ==
    {[k |-> "sided", head |-> x[1], player |-> [Player12 EXCEPT !.Side = s], rest |-> x[2]] :
        s \in {"CT", "TERRORIST", "Unassigned", "Spectator", "", "FOO"},
        x \in {<<"", " purchased \"m4a1\"">>,
                <<"", " dropped \"knife\"">>,
                <<"", " disconnected (reason \"Disconnect\")">>,
                <<"", " connected, address \"\"">>,
                <<"", " entered the game">>,
                <<"", " switched from team <Unassigned> to <Spectator>">>,
                <<"Banid: ", " was banned \"for 15.00 minutes\" by \"Console\"">>}}

Forms ==
    {Raw(t) : t \in TestBodies \cup Texts} \cup PurchaseForms \cup SayForms \cup KillForms
        \cup MoneyForms \cup ScoredForms \cup DefuseForms \cup ThrewForms
        \cup SidedForms

Stamped(pre, ts, form, nl) ==
    [stamped |-> TRUE, pre |-> pre, ts |-> ts, form |-> form, nl |-> nl]

\* a line that is not a log line: all of it is pre
Unstamped(text) ==
    [stamped |-> FALSE, pre |-> text, ts |-> TestStamp, form |-> Raw(""), nl |-> ""]

\* lines without the prefix: no prefix at all, or one that is off by a character
Unstamped0 ==
    {"foo", "", "L", "L 11/05/2018 - 15:44:36:", "L 11/05/2018 - 15:44:36:foo",
     "11/05/2018 - 15:44:36: foo", "L 1/05/2018 - 15:44:36: foo", "L 11/05/18 - 15:44:36: foo",
     "L 11-05-2018 - 15:44:36: foo", "L 11/05/2018 15:44:36: foo", "l 11/05/2018 - 15:44:36: foo",
     "L 11/05/2018 - 15:44:3x: foo", "L  11/05/2018 - 15:44:36: foo",
     "\"Player-Name<12><[U:1:29384012]><TERRORIST>\" purchased \"m4a1\"",
     "Starting Freeze period"}

\* the forms every prefix is tried with, one of them a body that holds a prefix itself
FewForms ==
    {Raw("foo"), Raw("Starting Freeze period"), Raw("L 11/05/2018 - 15:44:36: foo"),
     [k |-> "purchase", player |-> Player12, item |-> "m4a1"]}

\* digits that write a number out of the range of int: the largest int and one,
\* 2^64 and one, twenty nines, and a number in the range
BigNumbers ==
    {"9223372036854775808", "18446744073709551617", "99999999999999999999", "12"}

\* lines with such digits where a player id, a score, a coordinate or an amount
\* of money stands
NumberForms ==
    {[k |-> "number", field |-> f, player |-> Player12, sign |-> "", digits |-> d] :
        f \in {"id", "score", "coordinate", "money"}, d \in BigNumbers}
        \cup {[k |-> "number", field |-> "coordinate", player |-> Player12, sign |-> "-",
               digits |-> d] :
                 d \in {"9223372036854775809", "99999999999999999999", "12"}}

\* the bodies of the tests with text in front of them, after them and both
WithinForms ==
    {[k |-> "within", before |-> x[1], text |-> t, after |-> x[2]] :
        t \in TestBodies, x \in {<<"xx ", "">>, <<"", " yy">>, <<"xx ", " yy">>}}

Inputs ==
    {Stamped("", TestStamp, f, "") : f \in Forms}
        \cup {Stamped("", TestStamp, Raw(t), "\n") : t \in TestBodies}
        \cup {Stamped("", TestStamp, f, "\nbar\n") : f \in FewForms}
        \cup {Stamped(pre, ts, f, nl) :
                 pre \in {"", "xx "}, ts \in GoodStamps \cup BadStamps, f \in FewForms,
                 nl \in {"", "\n"}}
        \cup {Stamped("", BadDayStamp, f, "") : f \in KillForms \cup MoneyForms}
        \cup {Stamped("", TestStamp, f, "") : f \in WithinForms \cup NumberForms}
        \cup {Unstamped(t) : t \in Unstamped0}

----------------------------------------------------------------------------
(* The state machine: a caller reads a line, calls Parse on it, any number *)
(* of times, and drops the result.                                         *)

VARIABLES
    pc,       \* "idle": no line; "ready": a line to parse; "done": Parse has returned
    input,    \* the line, as an input
    msg,      \* the Message Parse returned, Nil or Some(m)
    err,      \* the error Parse returned, Nil or Some(e)
    matched,  \* history: the builders of the catalog entries whose pattern matches the body
    arg,      \* the argument of the last call of a helper
    ret,      \* what that call returned
    catalog,  \* the package variable DefaultPatterns, a map from pattern to builder
    calls,    \* the calls of Parse that run side by side, one per caller
    file,     \* the command line program: the lines of its input not yet read
    stdout,   \* what it has written to os.Stdout, one text per Fprintf
    stderr,   \* what it has written to os.Stderr, one text per Fprintf
    parsed    \* history: the texts it has passed to Parse, in the order of the calls

\* what the single caller of Parse and the callers of the helpers leave alone
world == <<catalog, calls, file, stdout, stderr, parsed>>

vars == <<pc, input, msg, err, matched, arg, ret, catalog, calls, file, stdout, stderr, parsed>>

\* the goroutines that call Parse side by side
Callers == {1, 2}

\* a caller that is not in a call
NoCall == [pc |-> "idle"]

NoInput == Unstamped("")

Init ==
    /\ pc = "idle"
    /\ input = NoInput
    /\ msg = Nil
    /\ err = Nil
    /\ matched = {}
    /\ arg = Nil
    /\ ret = Nil
    /\ catalog = DefaultPatterns
    /\ calls = [c \in Callers |-> NoCall]
    /\ file = <<>>
    /\ stdout = <<>>
    /\ stderr = <<>>
    /\ parsed = <<>>

ReadLine(in) ==
    /\ pc = "idle"
    /\ pc' = "ready"
    /\ input' = in
    /\ UNCHANGED <<msg, err, matched, arg, ret>>
    /\ UNCHANGED world

\* m, err := Parse(line)
CallParse ==
    /\ pc \in {"ready", "done"}
    /\ \E res \in Parse(Line(input)) :
          /\ msg' = res.msg
          /\ err' = res.err
          /\ matched' = res.hits
    /\ pc' = "done"
    /\ UNCHANGED <<input, arg, ret>>
    /\ UNCHANGED world

Return ==
    /\ pc = "done"
    /\ pc' = "idle"
    /\ input' = NoInput
    /\ msg' = Nil
    /\ err' = Nil
    /\ matched' = {}
    /\ UNCHANGED <<arg, ret>>
    /\ UNCHANGED world

Next ==
    \/ \E in \in Inputs : ReadLine(in)
    \/ CallParse
    \/ Return

Spec == Init /\ [][Next]_vars

----------------------------------------------------------------------------
(* The helpers on their own: a caller calls toInt on a text and drops the  *)
(* result.                                                                 *)

\* the longest text toInt is called on, in characters
MaxIntLen == 3

\* what the texts are made of: digits, signs, a letter, a blank
IntChars == {"0", "1", "9", "-", "+", "a", " "}

RECURSIVE IntTextsOf(_)
\* the texts of exactly n characters
IntTextsOf(n) == IF n = 0 THEN {""} ELSE {t \o c : t \in IntTextsOf(n - 1), c \in IntChars}

\* the texts of the test of toInt, the largest numbers the model holds, and the
\* texts of at most MaxIntLen characters
IntTexts ==
    {"1337", "hello", "2147483647", "-2147483647", "0000000012", "+123456789", "12 34",
     "9223372036854775808", "-9223372036854775809", "18446744073709551617",
     "99999999999999999999"}
        \cup UNION {IntTextsOf(n) : n \in 0..MaxIntLen}

\* i := toInt(v)
CallToInt(v) ==
    /\ pc = "idle"
    /\ pc' = "toInt"
    /\ arg' = Some(v)
    /\ ret' = Some(toInt(v))
    /\ UNCHANGED <<input, msg, err, matched>>
    /\ UNCHANGED world

\* texts with the characters an HTML-escaping encoder would rewrite, and with
\* the two a JSON string always escapes
MarkupTexts == {"<b>", "a&b", "x > y", "\"q\" \\ <&>", ""}

\* the lines ToJSON is shown: every test body, every valid prefix, texts with
\* markup as chat text, as player name and as unknown body, and a line that is
\* no log line
JSONInputs ==
    {Stamped("", TestStamp, Raw(t), "") : t \in TestBodies \cup MarkupTexts}
        \cup {Stamped("", ts, f, "") : ts \in GoodStamps, f \in FewForms}
        \cup {Stamped("", TestStamp, [k |-> "say", player |-> Player12, team |-> tm, text |-> t], "") :
                 tm \in BOOLEAN, t \in MarkupTexts}
        \cup {Stamped("", TestStamp, [k |-> "purchase", player |-> [pl EXCEPT !.Name = n],
                                      item |-> "m4a1"], "") :
                 pl \in Players \cup {[Name |-> "", ID |-> 12, SteamID |-> "[U:1:29384012]", Side |-> "CT"]},
                 n \in {"Player-Name"} \cup (MarkupTexts \ {""})}
        \cup {Unstamped("foo")}

\* m, _ := Parse(line); ToJSON(m), as the example, the test and the command line
\* program call it.  A float32 is written from its decimal digits, so messages
\* with a float32 of more than six significant digits are left out.
CallToJSON(in) ==
    /\ pc = "idle"
    /\ \E res \in Parse(Line(in)) :
          /\ IF res.msg = Nil THEN TRUE
             ELSE IF res.msg[1].Meta.Type = "PlayerBlinded"
                  THEN Len(res.msg[1].For.digits) <= 6
                  ELSE res.msg[1].Meta.Type # "ProjectileSpawned"
          /\ input' = in
          /\ msg' = res.msg
          /\ err' = res.err
          /\ matched' = res.hits
          /\ arg' = Some(res.msg)
          /\ ret' = Some(ToJSON(res.msg))
    /\ pc' = "ToJSON"
    /\ UNCHANGED world

\* catalogs of a caller: the one of the test, none, two patterns that overlap,
\* and the purchase pattern with the builder of another event
Catalogs ==
    {{<<PlayerPurchasePattern, "NewPlayerPurchase">>},
     {},
     {<<FreezTimeStartPattern, "NewFreezTimeStart">>, <<PlayerSayPattern, "NewPlayerSay">>},
     {<<PlayerPurchasePattern, "NewPlayerPickedUp">>, <<WorldRoundStartPattern, "NewWorldRoundStart">>}}

\* the lines a caller passes with its catalog
CatalogInputs ==
    {Stamped("", TestStamp, Raw(t), "") : t \in TestBodies}
        \cup {Stamped("", TestStamp, f, "") : f \in PurchaseForms \cup SayForms}
        \cup {Stamped("", ts, f, "") : ts \in GoodStamps \cup BadStamps, f \in FewForms}
        \cup {Unstamped(t) : t \in Unstamped0}

\* ParseWithPatterns(line, patterns) with a catalog of the caller
CallParseWithPatterns(in, patterns) ==
    /\ pc = "idle"
    /\ \E res \in ParseWithPatterns(Line(in), patterns) :
          /\ msg' = res.msg
          /\ err' = res.err
          /\ matched' = res.hits
    /\ input' = in
    /\ arg' = Some(patterns)
    /\ ret' = Nil
    /\ pc' = "ParseWithPatterns"
    /\ UNCHANGED world

\* the lines both packages are given: the test bodies and the lines of players
\* with names of letters and of other characters, with steam ids of both forms,
\* with every team, and a chat text that holds the end of a chat line
BothInputs ==
    {Stamped("", TestStamp, f, "") :
        f \in {Raw(t) : t \in TestBodies} \cup PurchaseForms \cup SayForms \cup KillForms
                 \cup MoneyForms \cup DefuseForms \cup ThrewForms \cup SidedForms
                 \cup {[k |-> "say", player |-> Player12, team |-> FALSE,
                        text |-> "b<2><BOT><CT>\" say \"hi"]}}
        \cup {Unstamped(t) : t \in Unstamped0}

\* the same line given to Parse of package cs2 and to Parse of package csgolog:
\* msg, err and matched are those of cs2, ret holds those of csgolog
CallBothParse(in) ==
    /\ pc = "idle"
    /\ \E res \in Parse(Line(in)) :
          /\ msg' = res.msg
          /\ err' = res.err
          /\ matched' = res.hits
    /\ \E res \in csgologParse(Line(in)) : ret' = Some(res)
    /\ input' = in
    /\ arg' = Some(Line(in))
    /\ pc' = "Parse"
    /\ UNCHANGED world

\* the caller drops what it was given
ReturnHelper ==
    /\ pc \in {"toInt", "ToJSON", "ParseWithPatterns", "Parse"}
    /\ pc' = "idle"
    /\ input' = NoInput
    /\ msg' = Nil
    /\ err' = Nil
    /\ matched' = {}
    /\ arg' = Nil
    /\ ret' = Nil
    /\ UNCHANGED world

HelperNext ==
    \/ \E v \in IntTexts : CallToInt(v)
    \/ ReturnHelper
    \/ \E in \in JSONInputs : CallToJSON(in)
    \/ \E in \in CatalogInputs, patterns \in Catalogs : CallParseWithPatterns(in, patterns)
    \/ \E in \in BothInputs : CallBothParse(in)

HelperSpec == Init /\ [][HelperNext]_vars

----------------------------------------------------------------------------
(* Calls of Parse side by side.  Each caller is a goroutine in a call of   *)
(* Parse; the steps of the calls interleave.  The one thing the calls      *)
(* share is the package variable DefaultPatterns, which the loop over the  *)
(* patterns reads.                                                         *)

\* what the callers that run side by side leave alone
solo == <<pc, input, msg, err, matched, arg, ret, file, stdout, stderr, parsed>>

\* the lines of the callers: bodies of no, one and two matching patterns, a
\* prefix with a day out of range, and a line without a prefix
ConcInputs ==
    {Stamped("", TestStamp, f, "") :
        f \in FewForms \cup {[k |-> "say", player |-> Player12, team |-> FALSE,
                              text |-> "Starting Freeze period"]}}
        \cup {Stamped("", BadDayStamp, Raw("foo"), ""), Unstamped("foo")}

\* caller c calls Parse(line)
BeginParse(c, in) ==
    /\ calls[c].pc = "idle"
    /\ calls' = [calls EXCEPT ![c] = [pc |-> "called", in |-> in]]
    /\ UNCHANGED <<catalog, solo>>

\* the call of c up to the loop: LogLinePattern and time.Parse
MatchLine(c) ==
    /\ calls[c].pc = "called"
    /\ LET result == FindStringSubmatch(LogLinePattern, Line(calls[c].in))
           t      == TimeParse(result.r[1])
       IN calls' = [calls EXCEPT ![c] =
             IF ~result.ok
             THEN [pc |-> "returned", in |-> calls[c].in, msg |-> Nil, err |-> Some(ErrorNoMatch)]
             ELSE IF t.err # Nil
             THEN [pc |-> "returned", in |-> calls[c].in, msg |-> Nil, err |-> t.err]
             ELSE [pc |-> "loop", in |-> calls[c].in, ti |-> t.ti, result |-> result.r]]
    /\ UNCHANGED <<catalog, solo>>

\* A wrong loop, to test the properties against: the entry that matched is taken
\* out of the catalog.
RangePatternsConsuming(c) ==
    /\ calls[c].pc = "loop"
    /\ LET hits == {e \in catalog : FindStringSubmatch(e[1], calls[c].result[2]).ok}
       IN IF hits = {}
          THEN /\ calls' = [calls EXCEPT ![c] =
                     [pc |-> "returned", in |-> calls[c].in, err |-> Nil,
                      msg |-> Some(NewUnknown(calls[c].ti, SliceFrom1(calls[c].result)))]]
               /\ catalog' = catalog
          ELSE \E e \in hits :
                  /\ calls' = [calls EXCEPT ![c] =
                        [pc |-> "returned", in |-> calls[c].in, err |-> Nil,
                         msg |-> Some(Call(e[2], calls[c].ti,
                                           FindStringSubmatch(e[1], calls[c].result[2]).r))]]
                  /\ catalog' = catalog \ {e}
    /\ UNCHANGED solo

\* the loop of the call of c: for re, fun := range patterns, and the return of
\* fun(ti, result) or of NewUnknown.  The catalog is read and left as it is.
RangePatterns(c) ==
    /\ calls[c].pc = "loop"
    /\ LET hits == Matches(catalog, calls[c].result[2])
       IN IF hits = {}
          THEN calls' = [calls EXCEPT ![c] =
                  [pc |-> "returned", in |-> calls[c].in, err |-> Nil,
                   msg |-> Some(NewUnknown(calls[c].ti, SliceFrom1(calls[c].result)))]]
          ELSE \E x \in hits :
                  calls' = [calls EXCEPT ![c] =
                     [pc |-> "returned", in |-> calls[c].in, err |-> Nil,
                      msg |-> Some(Call(x[1], calls[c].ti, x[2].r))]]
    /\ UNCHANGED <<catalog, solo>>

\* the caller c drops the result
EndParse(c) ==
    /\ calls[c].pc = "returned"
    /\ calls' = [calls EXCEPT ![c] = NoCall]
    /\ UNCHANGED <<catalog, solo>>

ConcNext ==
    \E c \in Callers :
        \/ \E in \in ConcInputs : BeginParse(c, in)
        \/ MatchLine(c)
        \/ RangePatterns(c)
        \/ EndParse(c)

ConcSpec == Init /\ [][ConcNext]_vars

----------------------------------------------------------------------------
(* The command line program: main reads its input line by line with       *)
(* bufio's ReadLine, passes each to Parse of package csgolog and writes    *)
(* the JSON text of the result, to os.Stderr behind "ERROR: " when Parse   *)
(* gave an error and to os.Stdout otherwise.  The input is kept as the     *)
(* sequence of its lines, each ended by a line break.                      *)

\* the most lines of an input
MaxLines == 2

\* the size of the buffer of bufio.NewReader, in bytes
defaultBufSize == 4096

RECURSIVE Fill(_, _)
\* the text of n times the character c
Fill(c, n) ==
    IF n = 0 THEN ""
    ELSE LET h == Fill(c, n \div 2) IN IF n % 2 = 0 THEN h \o h ELSE h \o h \o c

\* a log line of a hundred characters more than the buffer holds
LongLine == Line(Stamped("", TestStamp, Raw(Fill("x", defaultBufSize + 75)), ""))

\* lines of an input: a purchase, an unknown body, no log line, a day out of
\* range, an empty line
ShortLines ==
    {Line(Stamped("", TestStamp, f, "")) : f \in {[k |-> "purchase", player |-> Player12, item |-> "m4a1"],
                                              Raw("foo")}}
        \cup {"foo", Line(Stamped("", BadDayStamp, Raw("foo"), "")), ""}

RECURSIVE FilesOf(_)
\* the inputs of exactly n short lines
FilesOf(n) == IF n = 0 THEN {<<>>} ELSE {Append(f, l) : f \in FilesOf(n - 1), l \in ShortLines}

\* the inputs: up to MaxLines short lines, and the long line before, after and
\* without a short one
Files ==
    UNION {FilesOf(n) : n \in 0..MaxLines}
        \cup {<<LongLine>>} \cup {<<LongLine, l>> : l \in ShortLines}
        \cup {<<l, LongLine>> : l \in ShortLines}

\* the file is open, r := bufio.NewReader(file); arg keeps the whole input
CliInit ==
    /\ pc = "main"
    /\ file \in Files
    /\ arg = Some(file)
    /\ input = NoInput
    /\ msg = Nil
    /\ err = Nil
    /\ matched = {}
    /\ ret = Nil
    /\ catalog = DefaultPatterns
    /\ calls = [c \in Callers |-> NoCall]
    /\ stdout = <<>>
    /\ stderr = <<>>
    /\ parsed = <<>>

\* l, _, err := r.ReadLine(): the next line without its line break, or, for a
\* line that does not fit the buffer, the part of it that does, the rest staying
\* to be read; main drops isPrefix.  At the end of the input err is io.EOF, and
\* the loop ends.
BufioReadLine ==
    /\ pc = "main"
    /\ IF file = <<>>
       THEN /\ pc' = "exit"
            /\ UNCHANGED <<file, input>>
       ELSE /\ pc' = "loop"
            /\ IF Len(Head(file)) >= defaultBufSize
               THEN /\ input' = Unstamped(SubSeq(Head(file), 1, defaultBufSize))
                    /\ file' = <<SubSeq(Head(file), defaultBufSize + 1, Len(Head(file)))>>
                                  \o Tail(file)
               ELSE /\ input' = Unstamped(Head(file))
                    /\ file' = Tail(file)
    /\ UNCHANGED <<msg, err, matched, arg, ret, catalog, calls, stdout, stderr, parsed>>

\* the body of the loop up to the next ReadLine: m, errParse := Parse(string(l))
\* and the Fprintf of ToJSON(m)
MainLoopBody ==
    /\ pc = "loop"
    /\ \E res \in csgologParse(Line(input)) :
          /\ msg' = res.msg
          /\ err' = res.err
          /\ matched' = res.hits
          /\ IF res.err # Nil
             THEN /\ stderr' = Append(stderr, "ERROR: " \o ToJSON(res.msg))
                  /\ stdout' = stdout
             ELSE /\ stdout' = Append(stdout, ToJSON(res.msg))
                  /\ stderr' = stderr
    /\ parsed' = Append(parsed, Line(input))
    /\ pc' = "main"
    /\ UNCHANGED <<input, arg, ret, catalog, calls, file>>

CliNext == BufioReadLine \/ MainLoopBody

CliSpec == CliInit /\ [][CliNext]_vars

----------------------------------------------------------------------------
(* Properties.                                                             *)

\* Parse has returned for the line of input
Returned == pc = "done"

\* the prefix of the line holds a date and a time that exist
ValidStamp == input.stamped /\ input.ts \in GoodStamps

\* the prefix of the line holds values out of range
InvalidStamp == input.stamped /\ input.ts \in BadStamps

\* the shape of the prefix, d a digit
PrefixShape == "L dd/dd/dddd - dd:dd:dd: "

\* the text of s from position i on has the shape of the prefix
ShapeAt(s, i) ==
    /\ i + Len(PrefixShape) - 1 <= Len(s)
    /\ \A k \in 1..Len(PrefixShape) :
          IF Char(PrefixShape, k) = "d"
          THEN Char(s, i + k - 1) \in Digit
          ELSE Char(s, i + k - 1) = Char(PrefixShape, k)

\* s holds text of the shape of the prefix
HasPrefixShape(s) == \E i \in 1..Len(s) : ShapeAt(s, i)

\* the error of time.Parse for the prefix of input, what being the field it names
TimeError(what) == Some("parsing time \"" \o Stamp(input.ts) \o "\": " \o what \o " out of range")

\* C1: a line with a valid prefix whose body no pattern of the catalog matches
\* parses without an error to an Unknown whose raw is the body, and not the text
\* of the timestamp.
C1_UnknownKeepsBody ==
    (Returned /\ ValidStamp /\ matched = {}) =>
        /\ err = Nil
        /\ msg = Some([Meta |-> [Time |-> input.ts, Type |-> "Unknown"],
                       Raw  |-> Body(input.form)])

C1_Witness ==
    /\ Returned
    /\ input = Stamped("", TestStamp, Raw("a\""), "")
    /\ matched = {}
    /\ msg = Some([Meta |-> [Time |-> TestStamp, Type |-> "Unknown"], Raw |-> "a\""])

\* C2: a line that holds no text of the shape L dd/dd/dddd - dd:dd:dd: parses to
\* the error ErrorNoMatch and no message.
C2_NoPrefixNoMatch ==
    (Returned /\ ~HasPrefixShape(Line(input))) => (msg = Nil /\ err = Some(ErrorNoMatch))

C2_Witness ==
    /\ Returned
    /\ Line(input) = "11/05/2018 - 15:44:36: foo"
    /\ msg = Nil
    /\ err = Some(ErrorNoMatch)

\* C3: a line with the shape of the prefix whose month, day, hour, minute or
\* second is out of range parses to no message and the error of time.Parse, which
\* is not ErrorNoMatch, whatever the body.
C3_BadStampIsTimeError ==
    (Returned /\ InvalidStamp) =>
        /\ msg = Nil
        /\ err # Some(ErrorNoMatch)
        /\ err \in {TimeError(what) : what \in {"month", "day", "hour", "minute", "second"}}
        /\ input.ts = BadDayStamp => err = Some("parsing time \"11/50/2018 - 15:44:36\": day out of range")

C3_Witness ==
    /\ Returned
    /\ input.ts = At(2, 30, 2020, 15, 44, 36)
    /\ input.form.k = "purchase"
    /\ msg = Nil
    /\ err = Some("parsing time \"02/30/2020 - 15:44:36\": day out of range")

\* C4: Parse returns an error in two cases only, a line without the prefix and a
\* prefix with values out of range; every line with a valid prefix gives a message
\* and no error, whatever its body.
C4_ErrorsOnlyForPrefix ==
    Returned =>
        /\ err # Nil <=> (~HasPrefixShape(Line(input)) \/ InvalidStamp)
        /\ err = Nil <=> msg # Nil
        /\ ValidStamp => (msg # Nil /\ err = Nil)

C4_Witness ==
    /\ Returned
    /\ input.stamped
    /\ input.ts = At(2, 29, 2000, 12, 0, 59)
    /\ input.form = Raw("foo")
    /\ input.pre = "xx "
    /\ msg # Nil
    /\ err = Nil

\* C5: no two entries of the default catalog match the same body: whatever the
\* body after a valid prefix, free text included, at most one pattern matches.
C5_AtMostOnePatternMatches ==
    (Returned /\ ValidStamp) => Cardinality(matched) <= 1

\* a chat text that is a sentence of the log: two patterns match
C5_TwoPatternsMatch ==
    /\ Returned
    /\ Line(input) = "L 11/05/2018 - 15:44:36: \"Player<12><STEAM_1:1:0101011><CT>\" say \"Starting Freeze period\""
    /\ matched = {"NewPlayerSay", "NewFreezTimeStart"}

\* C6: Parse is a function of its line: two runs of Parse on the same line with
\* the default catalog return equal results, whatever the order the map of the
\* catalog is ranged over.
C6_SameLineSameResult ==
    [][(pc = "done" /\ pc' = "done") => (msg' = msg /\ err' = err)]_vars

\* one run has returned a PlayerSay for a line of which another returns FreezTimeStart
C6_TwoResults ==
    /\ Returned
    /\ input.form.k = "say"
    /\ msg # Nil
    /\ msg[1].Meta.Type = "FreezTimeStart"
    /\ "NewPlayerSay" \in matched

\* the event of the test of PlayerPurchase
TestPurchase ==
    [Meta   |-> [Time |-> TestStamp, Type |-> "PlayerPurchase"],
     Player |-> [Name |-> "Player-Name", ID |-> 12, SteamID |-> "[U:1:29384012]",
                 Side |-> "TERRORIST"],
     Item   |-> "m4a1"]

\* C7: when exactly one pattern of the catalog matches the body of a line with a
\* valid prefix, the message is the one the builder of that pattern makes: its
\* kind is the kind of the pattern and its fields are the groups by position, a
\* purchase giving name, id, steam id, side and item from groups 1 to 5.
C7_OneMatchOneBuilder ==
    (Returned /\ ValidStamp /\ Cardinality(matched) = 1) =>
        /\ err = Nil
        /\ msg # Nil
        /\ matched = {"New" \o msg[1].Meta.Type}
        /\ input.form.k = "purchase" =>
              msg = Some([Meta   |-> [Time |-> input.ts, Type |-> "PlayerPurchase"],
                          Player |-> input.form.player,
                          Item   |-> input.form.item])
        /\ (input.ts = TestStamp /\ input.form = Raw("\"Player-Name<12><[U:1:29384012]><TERRORIST>\" purchased \"m4a1\"")) =>
              msg = Some(TestPurchase)
        /\ input.form.k = "say" =>
              /\ msg[1].Meta.Type = "PlayerSay"
              /\ msg[1].Player = input.form.player
              /\ msg[1].Team = input.form.team
              /\ msg[1].Text = input.form.text

C7_Witness ==
    /\ Returned
    /\ input = Stamped("", TestStamp, Raw("\"Player-Name<12><[U:1:29384012]><TERRORIST>\" purchased \"m4a1\""), "\n")
    /\ matched = {"NewPlayerPurchase"}
    /\ msg = Some(TestPurchase)

\* C8: the message of a line with a valid prefix MM/DD/YYYY - HH:MM:SS, of any
\* kind, has as its time that year, month, day, hour, minute and second, in UTC.
C8_TimeIsThePrefix ==
    (Returned /\ ValidStamp) =>
        /\ msg # Nil
        /\ msg[1].Meta.Time = input.ts
        /\ msg[1].Meta.Time.Loc = "UTC"

C8_Witness ==
    /\ Returned
    /\ Line(input) = "L 12/31/1999 - 23:59:59: \"Player<12><STEAM_1:1:0101011><CT>\" purchased \"m4a1\""
    /\ msg # Nil
    /\ msg[1].Meta.Type = "PlayerPurchase"
    /\ msg[1].Meta.Time =
          [Year |-> 1999, Month |-> 12, Day |-> 31, Hour |-> 23, Min |-> 59, Sec |-> 59,
           Loc |-> "UTC"]

\* the flags <<headshot, penetrated>> of what follows the weapon
Flags(tail) ==
    CASE tail = "" -> <<FALSE, FALSE>>
      [] tail = " (headshot)" -> <<TRUE, FALSE>>
      [] tail = " (penetrated)" -> <<FALSE, TRUE>>
      [] tail = " (headshot penetrated)" -> <<TRUE, TRUE>>
      [] tail \in OtherKillTails -> <<FALSE, FALSE>>

\* C9: a kill line sets headshot and penetrated each from the parenthetical that
\* follows the weapon: both for (headshot penetrated), one for (headshot) or
\* (penetrated), none without it; the attacker, the victim, the positions and the
\* weapon are the same in the four cases.
C9_KillFlags ==
    (Returned /\ ValidStamp /\ input.form.k = "kill") =>
        /\ err = Nil
        /\ msg = Some([Meta             |-> [Time |-> input.ts, Type |-> "PlayerKill"],
                       Attacker         |-> input.form.attacker,
                       AttackerPosition |-> input.form.attackerPos,
                       Victim           |-> input.form.victim,
                       VictimPosition   |-> input.form.victimPos,
                       Weapon           |-> input.form.weapon,
                       Headshot         |-> Flags(input.form.tail)[1],
                       Penetrated       |-> Flags(input.form.tail)[2]])

C9_Witness ==
    /\ Returned
    /\ Line(input) = "L 11/05/2018 - 15:44:36: \"Player-Name<12><[U:1:29384012]><TERRORIST>\" [-225 -1829 -168] killed \"Zim<20><BOT><CT>\" [-476 0 110] with \"glock\" (headshot penetrated)"
    /\ msg # Nil
    /\ msg[1].Headshot
    /\ msg[1].Penetrated
    /\ msg[1].Victim.Name = "Zim"

\* C10: a money change A-B = $R gives the equation a = A, b = -B, result = R, and
\* A+B = $R gives a = A, b = B, result = R; purchase is the item of the
\* annotation (purchase: item) after (tracked), or empty without it.
C10_MoneyEquation ==
    (Returned /\ ValidStamp /\ input.form.k = "money") =>
        /\ err = Nil
        /\ msg = Some([Meta     |-> [Time |-> input.ts, Type |-> "PlayerMoneyChange"],
                       Player   |-> input.form.player,
                       Equation |-> [A |-> input.form.a, B |-> input.form.b,
                                     Result |-> input.form.result],
                       Purchase |-> input.form.purchase])

C10_Witness ==
    /\ Returned
    /\ Line(input) = "L 11/05/2018 - 15:44:36: \"Player<12><STEAM_1:1:0101011><CT>\" money change 2050-1000 = $1050 (tracked) (purchase: item_assaultsuit)"
    /\ msg # Nil
    /\ msg[1].Equation = [A |-> 2050, B |-> -1000, Result |-> 1050]
    /\ msg[1].Purchase = "item_assaultsuit"

\* the text is one or more digits, what \d+ accepts
IsDigits(s) == Len(s) > 0 /\ \A i \in 1..Len(s) : Char(s, i) \in Digit

\* the number a text of at most three digits writes
SmallNumber(s) ==
    CHOOSE n \in 0..999 :
        \E z \in {"", "0", "00"} : Len(z) + Len(Itoa(n)) = Len(s) /\ z \o Itoa(n) = s

\* the digits, after a - where neg, write a number out of the range of int
OutOfRange(neg, digits) ==
    DigitsLess(IF neg THEN MinIntDigits ELSE MaxIntDigits, StripZeros(digits))

C12_ToIntValueOrZero ==
    pc = "toInt" =>
        LET v      == arg[1]
            signed == Len(v) > 0 /\ Char(v, 1) \in {"+", "-"}
            digits == IF signed THEN SubSeq(v, 2, Len(v)) ELSE v
            nz     == {i \in 1..Len(digits) : Char(digits, i) # "0"}
            \* one or more digits that write a number in the range of int
            valid  == /\ Len(digits) > 0
                      /\ \A i \in 1..Len(digits) : Char(digits, i) \in Digit
                      /\ ~OutOfRange(Len(v) > 0 /\ Char(v, 1) = "-", digits)
            \* the value as Itoa writes it: no zeros in front, no + sign, no -0
            canon  == IF nz = {} THEN "0"
                      ELSE (IF Char(v, 1) = "-" THEN "-" ELSE "")
                               \o SubSeq(digits, CHOOSE i \in nz : \A j \in nz : i <= j, Len(digits))
        IN /\ ret # Nil
           /\ ret[1] \in Int
           /\ valid => Itoa(ret[1]) = canon
           /\ ~valid => ret[1] = 0

C12_Witness ==
    /\ pc = "toInt"
    /\ arg = Some("-19")
    /\ ret = Some(0 - 19)

\* C13: for a bomb-defuse line kit is the negation of the optional capture out:
\* Begin_Bomb_Defuse_With_Kit gives kit true and Begin_Bomb_Defuse_Without_Kit
\* gives kit false, with the same player in both.
C13_KitIsNotOut ==
    (Returned /\ ValidStamp /\ input.form.k = "defuse") =>
        /\ err = Nil
        /\ msg = Some([Meta   |-> [Time |-> input.ts, Type |-> "PlayerBombBeginDefuse"],
                       Player |-> input.form.player,
                       Kit    |-> input.form.kit])

C13_Witness ==
    /\ Returned
    /\ Line(input) = "L 11/05/2018 - 15:44:36: \"Player<12><STEAM_1:1:0101011><CT>\" triggered \"Begin_Bomb_Defuse_Without_Kit\""
    /\ msg # Nil
    /\ msg[1].Meta.Type = "PlayerBombBeginDefuse"
    /\ ~msg[1].Kit

\* C14: the optional text at the end of a throw does not change the fields before
\* it: without flashbang entindex N the line gives the same player, grenade and
\* position as with it, and entindex 0; with it, entindex is N.
C14_ThrewWithAndWithout ==
    (Returned /\ ValidStamp /\ input.form.k = "threw") =>
        /\ err = Nil
        /\ msg = Some([Meta     |-> [Time |-> input.ts, Type |-> "PlayerThrew"],
                       Player   |-> input.form.player,
                       Grenade  |-> input.form.grenade,
                       Position |-> input.form.position,
                       Entindex |-> IF input.form.entindex = Nil THEN 0
                                    ELSE input.form.entindex[1]])

C14_Witness ==
    /\ Returned
    /\ Line(input) = "L 11/05/2018 - 15:44:36: \"Player-Name<12><[U:1:29384012]><TERRORIST>\" threw flashbang [-716 -1636 170] flashbang entindex 163)"
    /\ msg # Nil
    /\ msg[1].Entindex = 163
    /\ msg[1].Position = [X |-> -716, Y |-> -1636, Z |-> 170]

\* C15: every player of every event Parse returns has a side among CT,
\* TERRORIST, Unassigned, Spectator and the empty text, and the player of a
\* PlayerConnected, PlayerEntered, PlayerBanned or PlayerSwitched has the empty
\* side.
C15_SidesOfPlayers ==
    (Returned /\ msg # Nil) =>
        LET m == msg[1]
        IN /\ \A f \in DOMAIN m \cap {"Player", "Attacker", "Victim"} :
                 m[f].Side \in {"CT", "TERRORIST", "Unassigned", "Spectator", ""}
           /\ m.Meta.Type \in {"PlayerConnected", "PlayerEntered", "PlayerBanned",
                               "PlayerSwitched"} => m.Player.Side = ""

\* a ban line that writes a side gives a player without one
C15_Witness ==
    /\ Returned
    /\ Line(input) = "L 11/05/2018 - 15:44:36: Banid: \"Player<12><STEAM_1:1:0101011><CT>\" was banned \"for 15.00 minutes\" by \"Console\""
    /\ msg # Nil
    /\ msg[1].Meta.Type = "PlayerBanned"
    /\ msg[1].Player = [Name |-> "Player", ID |-> 12, SteamID |-> "STEAM_1:1:0101011", Side |-> ""]

\* C16: kind and variant correspond one to one: every builder tags the message
\* with the name of the type it builds and gives it the fields of that type, the
\* 34 tags (33 of the catalog and Unknown) differ from each other, and every
\* message Parse returns has the fields of the type its kind names and a kind
\* whose pattern matched.
C16_KindIsVariant ==
    LET blank == [j \in 0..20 |-> ""]
        built == {<<e[2], Call(e[2], TestStamp, blank)>> : e \in DefaultPatterns}
                     \cup {<<"NewUnknown", NewUnknown(TestStamp, blank)>>}
    IN /\ \A b \in built :
             /\ b[1] = "New" \o b[2].Meta.Type
             /\ DOMAIN b[2] = FieldsOf(b[2].Meta.Type)
       /\ Cardinality({b[2].Meta.Type : b \in built}) = 34
       /\ (Returned /\ msg # Nil) =>
             /\ DOMAIN msg[1] = FieldsOf(msg[1].Meta.Type)
             /\ IF matched = {} THEN msg[1].Meta.Type = "Unknown"
                ELSE "New" \o msg[1].Meta.Type \in matched

C16_Witness ==
    /\ Returned
    /\ msg # Nil
    /\ msg[1].Meta.Type = "PlayerAttack"
    /\ matched = {"NewPlayerAttack"}
    /\ DOMAIN msg[1] =
          {"Meta", "Attacker", "AttackerPosition", "Victim", "VictimPosition", "Weapon",
           "Damage", "DamageArmor", "Health", "Armor", "Hitgroup"}

\* C17: ToJSON writes <, > and & of every string field as they are, never as
\* the escapes \u003c, \u003e and \u0026: the text holds each of the three
\* characters as often as the string fields of the message do.  The text
\* starts with "time", the time of the prefix as RFC 3339 in UTC, and "type",
\* the kind, and goes on with the fields of the variant under their tags, or
\* ends there when the variant has none.  The message of the example gives the
\* text of the example.
C17_MarkupIsLiteral ==
    (pc = "ToJSON" /\ msg # Nil) =>
        LET json == ret[1]
            m    == msg[1]
            own  == Struct[m.Meta.Type]
            ts   == input.ts
            head == "{\"time\":\"" \o Pad4(ts.Year) \o "-" \o Pad2(ts.Month) \o "-" \o Pad2(ts.Day)
                        \o "T" \o Pad2(ts.Hour) \o ":" \o Pad2(ts.Min) \o ":" \o Pad2(ts.Sec)
                        \o "Z\",\"type\":\"" \o m.Meta.Type \o "\""
            rest == SubSeq(json, Len(head) + 1, Len(json))
            StartsWith(s, p) == Len(s) >= Len(p) /\ SubSeq(s, 1, Len(p)) = p
            strings ==
                {<<j, 0>> : j \in {j \in 1..Len(own) : own[j][3] = "string"}}
                    \cup {<<j, g>> : j \in {j \in 1..Len(own) : own[j][3] = "Player"},
                                     g \in {g \in 1..Len(Struct.Player) :
                                               Struct.Player[g][3] = "string"}}
            Val(p) == IF p[2] = 0 THEN m[own[p[1]][1]]
                      ELSE m[own[p[1]][1]][Struct.Player[p[2]][1]]
            Count(c) == Cardinality({i \in 1..Len(json) : Char(json, i) = c})
            Held(c)  == Cardinality(UNION {{<<p, i>> : i \in {i \in 1..Len(Val(p)) : Char(Val(p), i) = c}} :
                                              p \in strings})
        IN /\ \A e \in {"\\u003c", "\\u003e", "\\u0026", "\\u003C", "\\u003E"} : ~Contains(json, e)
           /\ \A c \in {"<", ">", "&"} : Count(c) = Held(c)
           /\ StartsWith(json, head)
           /\ IF Len(own) = 0 THEN rest = "}\n"
              ELSE /\ StartsWith(rest, ",\"" \o own[1][2] \o "\":")
                   /\ \A j \in 1..Len(own) : Contains(rest, "\"" \o own[j][2] \o "\":")
           /\ (Line(input) = "L 11/05/2018 - 15:44:36: \"Player-Name<12><[U:1:29384012]><CT>\" purchased \"m4a1\"")
                 => json = "{\"time\":\"2018-11-05T15:44:36Z\",\"type\":\"PlayerPurchase\",\"player\":{\"name\":\"Player-Name\",\"id\":12,\"steam_id\":\"[U:1:29384012]\",\"side\":\"CT\"},\"item\":\"m4a1\"}\n"

C17_Witness ==
    /\ pc = "ToJSON"
    /\ msg # Nil
    /\ msg[1].Meta.Type = "PlayerSay"
    /\ msg[1].Text = "\"q\" \\ <&>"
    /\ Contains(ret[1], ",\"text\":\"\\\"q\\\" \\\\ <&>\",\"team\":")

\* C18: ParseWithPatterns looks at the catalog it was passed and at no other.  A
\* line whose body a pattern of the catalog matches gives the event of the
\* builder the catalog holds for that pattern, a purchase line with the player
\* and the item of the line; a line with a valid prefix whose body no pattern of
\* the catalog matches gives Unknown with the body, also where Parse gives an
\* event for it; the error is the error of Parse for the same line.
C18_OnlyThePassedCatalog ==
    (pc = "ParseWithPatterns") =>
        LET patterns == arg[1]
            builders == {e[2] : e \in patterns}
            f        == input.form
            purchase == {e[2] : e \in {e \in patterns : e[1] = PlayerPurchasePattern}}
        IN /\ matched \subseteq builders
           /\ \A res \in Parse(Line(input)) : res.err = err
           /\ (msg # Nil /\ matched = {}) =>
                 /\ msg[1].Meta.Type = "Unknown"
                 /\ input.stamped => msg[1].Raw = Body(f) \o input.nl
           /\ msg # Nil => \A b \in matched : b = "New" \o msg[1].Meta.Type
           /\ (ValidStamp /\ f.k = "purchase") =>
                 /\ purchase \subseteq matched
                 /\ msg # Nil
                 /\ "New" \o msg[1].Meta.Type \in purchase =>
                       /\ msg[1].Player = f.player
                       /\ msg[1].Item = f.item
           /\ (ValidStamp /\ f = Raw("Starting Freeze period")
                  /\ "NewFreezTimeStart" \notin builders) =>
                 /\ msg # Nil
                 /\ msg[1].Meta.Type = "Unknown"
                 /\ \E res \in Parse(Line(input)) : res.msg[1].Meta.Type = "FreezTimeStart"

\* two patterns of the catalog that was passed match the body of a chat line, and
\* the event is the one of the pattern that is not the chat pattern
C18_TwoOfTheCatalogMatch ==
    /\ pc = "ParseWithPatterns"
    /\ arg = Some({<<FreezTimeStartPattern, "NewFreezTimeStart">>, <<PlayerSayPattern, "NewPlayerSay">>})
    /\ input.form.k = "say"
    /\ input.form.text = "Starting Freeze period"
    /\ err = Nil
    /\ matched = {"NewFreezTimeStart", "NewPlayerSay"}
    /\ msg[1].Meta.Type = "FreezTimeStart"

\* C19: Parse fails with ErrorNoMatch, and gives no message, for every line that
\* does not begin with the prefix L MM/DD/YYYY - HH:MM:SS: , a line with other
\* text in front of the prefix among them.
C19_NotAtStartNoMatch ==
    (Returned /\ ~ShapeAt(Line(input), 1)) => (err = Some(ErrorNoMatch) /\ msg = Nil)

\* a line with text in front of a valid prefix was parsed without an error
C19_PrefixInsideLine ==
    /\ Returned
    /\ Line(input) = "xx L 11/05/2018 - 15:44:36: foo"
    /\ ~ShapeAt(Line(input), 1)
    /\ err = Nil
    /\ msg # Nil
    /\ msg[1].Meta.Type = "Unknown"
    /\ msg[1].Raw = "foo"

\* C20: a purchase line with a valid prefix, whose player name is any text that
\* is not empty and holds no line break (spaces, punctuation, <, > and " among
\* its characters) and whose steam id has the form STEAM_1:1:0101010 or the form
\* [U:1:29384012], parses to an event with a player whose name is the whole
\* name and whose id and steam id are the two fields in brackets after it.
C20_WholeName ==
    (Returned /\ ValidStamp /\ input.form.k = "purchase") =>
        /\ err = Nil
        /\ msg # Nil
        /\ "Player" \in DOMAIN msg[1]
        /\ msg[1].Player.Name = input.form.player.Name
        /\ msg[1].Player.ID = input.form.player.ID
        /\ msg[1].Player.SteamID = input.form.player.SteamID

\* the name of the player holds the end of a chat line, and the purchase line was
\* parsed to a chat event of a player with the first part of the name
C20_NameHoldsAnotherLine ==
    /\ Returned
    /\ ValidStamp
    /\ input.form.k = "purchase"
    /\ input.form.player.Name = "x<1><BOT><CT>\" say \"hi"
    /\ input.form.player.SteamID = "[U:1:29384012]"
    /\ matched = {"NewPlayerPurchase", "NewPlayerSay"}
    /\ msg[1].Meta.Type = "PlayerSay"
    /\ msg[1].Player.Name = "x"
    /\ msg[1].Player.SteamID = "BOT"

\* C21: no call of Parse writes to the catalog or to anything else the calls
\* share.  In every state of every interleaving of the calls the catalog holds
\* the pairs of pattern and builder it began with, and what a call returns for
\* a line is what Parse returns for that line on its own, whatever lines the
\* same caller or the other one parsed before or parses meanwhile.
C21_CatalogIsOnlyRead ==
    /\ catalog = DefaultPatterns
    /\ \A c \in Callers :
          calls[c].pc = "returned" =>
             \E res \in Parse(Line(calls[c].in)) :
                res.msg = calls[c].msg /\ res.err = calls[c].err

\* both callers have parsed the same purchase line side by side and hold the
\* same event
C21_Witness ==
    /\ calls[1].pc = "returned"
    /\ calls[2].pc = "returned"
    /\ calls[1].in = calls[2].in
    /\ calls[1].in.form.k = "purchase"
    /\ calls[1].msg = calls[2].msg
    /\ calls[1].msg[1].Meta.Type = "PlayerPurchase"
    /\ catalog = DefaultPatterns

\* C22: the program calls Parse once for each line of its input, in the order
\* of the input, up to the end of the input.  While lines are left it has not
\* come to its end, whatever lines Parse gave an error for, and the texts passed
\* to Parse so far are the lines read so far; at its end they are the lines of
\* the input, one call for each line.
C22_EveryLineParsedOnce ==
    /\ pc = "exit" => (file = <<>> /\ parsed = arg[1])
    /\ pc = "main" => parsed \o file = arg[1]
    /\ pc = "loop" => parsed \o <<Line(input)>> \o file = arg[1]

\* the input is one line that is longer than the buffer of the reader: Parse was
\* called twice, for the part of the line that fits the buffer and for the rest
C22_LongLineParsedTwice ==
    /\ pc = "exit"
    /\ arg = Some(<<LongLine>>)
    /\ Len(parsed) = 2
    /\ parsed[1] \o parsed[2] = LongLine
    /\ Len(parsed[1]) = defaultBufSize

\* C23: for each line of its input the program writes one record.  For a line
\* that Parse gives an error for it is ERROR: and the JSON text, on the error
\* stream, and nothing on the output stream; for a line that Parse gives an event
\* for it is the JSON text of the event on the output stream, and nothing on the
\* error stream.  So at the end the output stream holds the events of the lines
\* that parse, in their order, and the error stream one record for each other
\* line.
C23_OneRecordPerLine ==
    pc = "exit" =>
        LET Event(l) ==
                IF l = "L 11/05/2018 - 15:44:36: foo"
                THEN "{\"time\":\"2018-11-05T15:44:36Z\",\"type\":\"Unknown\",\"raw\":\"foo\"}\n"
                ELSE IF l = LongLine
                THEN "{\"time\":\"2018-11-05T15:44:36Z\",\"type\":\"Unknown\",\"raw\":\""
                        \o SubSeq(l, 26, Len(l)) \o "\"}\n"
                ELSE "{\"time\":\"2018-11-05T15:44:36Z\",\"type\":\"PlayerPurchase\",\"player\":{\"name\":\"Player\",\"id\":12,\"steam_id\":\"STEAM_1:1:0101011\",\"side\":\"CT\"},\"item\":\"m4a1\"}\n"
            Parses(l) == HasPrefixShape(l) /\ ~Contains(l, "11/50/2018")
            Fails(l)  == ~Parses(l)
            good == SelectSeq(arg[1], Parses)
            bad  == SelectSeq(arg[1], Fails)
        IN /\ stdout = [j \in 1..Len(good) |-> Event(good[j])]
           /\ stderr = [j \in 1..Len(bad) |-> "ERROR: null\n"]

\* the input is one log line longer than the buffer of the reader, and the
\* program has written two records for it, one to each stream
C23_TwoRecordsForOneLine ==
    /\ pc = "exit"
    /\ arg = Some(<<LongLine>>)
    /\ Len(stdout) = 1
    /\ stderr = <<"ERROR: null\n">>
    /\ stdout[1] = "{\"time\":\"2018-11-05T15:44:36Z\",\"type\":\"Unknown\",\"raw\":\""
                      \o Fill("x", defaultBufSize - 25) \o "\"}\n"

\* C24: the patterns of package cs2 match what the patterns of package csgolog
\* match, and more.  For every kind of event, a body that the pattern of csgolog
\* matches is matched by the pattern of cs2 of that kind.
C24_PermissiveMatchesMore ==
    pc = "Parse" => ret[1].hits \subseteq matched

\* the purchase of a player with a name of letters is matched by the purchase
\* pattern of both packages, which give the same event
C24_Witness ==
    /\ pc = "Parse"
    /\ input.form.k = "purchase"
    /\ input.form.player.Name = "Player"
    /\ ret[1].hits = {"NewPlayerPurchase"}
    /\ matched = {"NewPlayerPurchase"}
    /\ ret[1].msg = msg

\* C25: where the pattern of package csgolog and the pattern of package cs2 of
\* one kind both match a body, the two parsers return events with equal values
\* in every field: the same players with their names, ids, steam ids and teams,
\* and the same texts.
C25_SameEventFromBoth ==
    (/\ pc = "Parse"
     /\ msg # Nil
     /\ ret[1].msg # Nil
     /\ GetType(msg[1]) = GetType(ret[1].msg[1])
     /\ GetType(msg[1]) # "Unknown")
        => msg = ret[1].msg

\* the player with the name Player says a text that holds the end of a chat
\* line: csgolog gives the player and the whole text, cs2 takes the start of
\* the text into the name, and the id and the text from what the player said
C25_TextTakenIntoName ==
    /\ pc = "Parse"
    /\ input.form = [k |-> "say", player |-> Player12, team |-> FALSE,
                     text |-> "b<2><BOT><CT>\" say \"hi"]
    /\ ret[1].msg # Nil
    /\ GetType(ret[1].msg[1]) = "PlayerSay"
    /\ ret[1].msg[1].Player = Player12
    /\ ret[1].msg[1].Text = "b<2><BOT><CT>\" say \"hi"
    /\ msg # Nil
    /\ GetType(msg[1]) = "PlayerSay"
    /\ msg[1].Player = [Name |-> "Player<12><STEAM_1:1:0101011><CT>\" say \"b", ID |-> 2,
                        SteamID |-> "BOT", Side |-> "CT"]
    /\ msg[1].Text = "hi"

\* C26: no builder reads past the end of what it is given.  For every pattern
\* of the catalogs of both packages that matches the body of a line, the
\* highest index its builder reads is an index of the slice of the match, whose
\* length is the number of groups of the pattern and one more, also where
\* optional groups take no part in the match; and the builder of Unknown reads
\* an index of the rest of the line match.
C26_IndexesInRange ==
    (pc = "Parse" /\ FindStringSubmatch(LogLinePattern, arg[1]).ok) =>
        LET result == FindStringSubmatch(LogLinePattern, arg[1])
        IN /\ \A e \in DefaultPatterns \cup csgologPatterns :
                 LET r == FindStringSubmatch(e[1], result.r[2])
                 IN /\ DOMAIN r.r = 0..NumSubexp(e[1])
                    /\ r.ok => HighestIndexRead(e[2]) \in DOMAIN r.r
           /\ HighestIndexRead("NewUnknown") \in DOMAIN SliceFrom1(result.r)

\* a kill line without the text in parentheses: the groups 16 and 17 take no
\* part in the match and NewPlayerKill reads group 17 as empty
C26_Witness ==
    /\ pc = "Parse"
    /\ input.form.k = "kill"
    /\ input.form.tail = ""
    /\ matched = {"NewPlayerKill"}
    /\ LET r == FindStringSubmatch(PlayerKillPattern, Body(input.form))
       IN r.ok /\ r.r[15] = "glock" /\ r.r[16] = "" /\ r.r[17] = "" /\ DOMAIN r.r = 0..17
    /\ msg # Nil
    /\ GetType(msg[1]) = "PlayerKill"
    /\ ~msg[1].Headshot
    /\ ~msg[1].Penetrated

C28_BodyEndsAtLineBreak ==
    (Returned /\ input.stamped /\ input.nl # "" /\ Char(input.nl, 1) = "\n") =>
        /\ \E res \in Parse(Line([input EXCEPT !.nl = ""])) :
              res.msg = msg /\ res.err = err /\ res.hits = matched
        /\ (msg # Nil /\ GetType(msg[1]) = "Unknown") => msg[1].Raw = Body(input.form)

\* the line of the test with a line break after foo
C28_Witness ==
    /\ Returned
    /\ Line(input) = "L 11/05/2018 - 15:44:36: foo\n"
    /\ err = Nil
    /\ msg = Some(NewUnknown(TestStamp, <<"foo">>))
    /\ msg[1].Raw = "foo"

\* C29: toInt gives 0 for digits that write a number out of the range of int.  A
\* line with such digits as the id of a player, a score, a coordinate or an
\* amount of money parses without error to the event of its kind with 0 in that
\* field, not with a number that was cut or wrapped around, and with the other
\* fields as written; with digits in the range the field is the number.
C29_OutOfRangeIsZero ==
    (Returned /\ ValidStamp /\ input.form.k = "number") =>
        LET f == input.form
            n == IF OutOfRange(f.sign = "-", f.digits) THEN 0
                 ELSE IF f.sign = "-" THEN 0 - DecimalValue(f.digits, Len(f.digits))
                 ELSE DecimalValue(f.digits, Len(f.digits))
        IN /\ err = Nil
           /\ msg # Nil
           /\ CASE f.field = "id" ->
                     msg[1] = [Meta |-> [Time |-> input.ts, Type |-> "PlayerPurchase"],
                               Player |-> [Player12 EXCEPT !.ID = n],
                               Item |-> "m4a1"]
                [] f.field = "score" ->
                     msg[1] = [Meta |-> [Time |-> input.ts, Type |-> "TeamScored"],
                               Side |-> "CT", Score |-> n, NumPlayers |-> 5]
                [] f.field = "coordinate" ->
                     msg[1] = [Meta |-> [Time |-> input.ts, Type |-> "PlayerThrew"],
                               Player |-> Player12,
                               Grenade |-> "flashbang",
                               Position |-> [X |-> n, Y |-> 0 - 1636, Z |-> 170],
                               Entindex |-> 0]
                [] f.field = "money" ->
                     msg[1] = [Meta |-> [Time |-> input.ts, Type |-> "PlayerMoneyChange"],
                               Player |-> Player12,
                               Equation |-> [A |-> n, B |-> 300, Result |-> 8000],
                               Purchase |-> ""]

\* a purchase of the player with the id 2^64 + 1, which wraps around to 1
C29_Witness ==
    /\ Returned
    /\ Body(input.form) = "\"Player<18446744073709551617><STEAM_1:1:0101011><CT>\" purchased \"m4a1\""
    /\ err = Nil
    /\ msg # Nil
    /\ GetType(msg[1]) = "PlayerPurchase"
    /\ msg[1].Player.ID = 0

\* C30: a kill line with other text in the parentheses after the weapon than
\* headshot, penetrated or headshot penetrated, as (penetrated headshot) or
\* (headshot noscope), is a PlayerKill all the same, with the attacker, the
\* victim, the positions and the weapon of the line, and with headshot and
\* penetrated both false: it is the event of the line without the parentheses.
C30_OtherParenthetical ==
    (Returned /\ ValidStamp /\ input.form.k = "kill" /\ input.form.tail \in OtherKillTails) =>
        /\ err = Nil
        /\ matched = {"NewPlayerKill"}
        /\ msg # Nil
        /\ GetType(msg[1]) = "PlayerKill"
        /\ ~msg[1].Headshot
        /\ ~msg[1].Penetrated
        /\ msg[1].Attacker = input.form.attacker
        /\ msg[1].Victim = input.form.victim
        /\ msg[1].AttackerPosition = input.form.attackerPos
        /\ msg[1].VictimPosition = input.form.victimPos
        /\ msg[1].Weapon = input.form.weapon
        /\ \E res \in Parse(Line([input EXCEPT !.form.tail = ""])) : res.msg = msg

\* the kill of the tests, with the two words the other way round
C30_Witness ==
    /\ Returned
    /\ Line(input) = "L 11/05/2018 - 15:44:36: \"Player-Name<12><[U:1:29384012]><TERRORIST>\" [-225 -1829 -168] killed \"Zim<20><BOT><CT>\" [-476 0 110] with \"glock\" (penetrated headshot)"
    /\ msg # Nil
    /\ GetType(msg[1]) = "PlayerKill"
    /\ msg[1].Victim.Name = "Zim"
    /\ msg[1].Weapon = "glock"
    /\ ~msg[1].Headshot
    /\ ~msg[1].Penetrated

====
